---- MODULE Spec2Model ----
(***************************************************************************)
(* Model of the intent-contract pipeline of src/idc: the policy decision   *)
(* function, the action normalizer, the canary execution engine with its   *)
(* mock tool, the KPI promotion gate, the human sign-off store, the        *)
(* release finalizer, the audit manifest, and the dry run with the         *)
(* acceptance evaluation.                                                  *)
(*                                                                         *)
(* Strings are modelled as sequences of tokens.  A token is an atom of the *)
(* string that contains neither "." nor ":" (unless it is exactly that     *)
(* separator), so splitting, joining and comparing strings is done on the  *)
(* token sequence exactly as Python does it on characters.                 *)
(***************************************************************************)
EXTENDS Integers, Sequences, FiniteSets, TLC

VARIABLES
    intent,     \* the loaded contract (Intent)
    action,     \* the action last handed to policy.check (or NoAction)
    decision,   \* the PolicyDecision last returned (or NoDecision)
    pc,         \* position of the canary run: idle, loop, done or raised
    plan,       \* the steps of the plan file read so far by the run
    effects,    \* effects.jsonl: <<>> when absent, else <<its lines>>
    violations, \* run_canary's counter of blocked actions
    gates,      \* run_canary's counter of gated actions
    executed,   \* run_canary's counter of successful dispatches
    tracker,    \* the run's IssueTrackerClient (routes, tags, notes)
    rollback_file,  \* rollback_plan.jsonl: <<>> when absent, else <<steps>>
    signoff_file,   \* human_signoff.json: <<>> when absent, else <<record>>
    summary_file,   \* summary.json: <<>> when absent, else <<record>>
    kpis,           \* the kpis section of the intent file
    metrics,        \* metrics.json: the computed metrics, in hundredths
    promotion_file, \* promotion.json: <<>> when absent, else <<record>>
    release_file,   \* release.json: <<>> when absent, else <<record>>
    ret,            \* what the last gate or finalize call returned or raised
    proposed,       \* the actions an agent proposed for one record
    proposed_for,   \* the id of that record
    normalized,     \* <<>> before the normalizer ran, else <<its output>>
    trace,          \* the steps planned so far by the agent and the normalizer
                    \* over the records of a dataset
    rollback_effects,   \* rollback_effects.jsonl: <<>> when absent, else <<its lines>>
    files,      \* content of the files a gate evaluation hashes
    hashed,     \* <<>>, else <<the contents the evaluation that wrote
                \* promotion.json fed to the hash, in hashing order>>
    cmd,        \* the sign-off command line run last: its operation and the
                \* --reviewer and --notes it was given
    run_files,      \* the regular files under the audit run's directory:
                    \* path relative to the run directory -> content
    manifest_file,  \* manifest.json: <<>> when absent, else <<record>>
    history         \* what the commands run so far did: the outcome of the
                    \* most recent gate evaluation, and whether a passing
                    \* evaluation, a summary and an approve call occurred

policyVars == <<action, decision>>

canaryVars == <<pc, plan, effects, violations, gates, executed, tracker,
                rollback_file, summary_file>>

gateVars == <<kpis, metrics, promotion_file, release_file, ret>>

normVars == <<proposed, proposed_for, normalized, trace>>

rollbackVars == <<rollback_effects>>

hashVars == <<files, hashed>>

auditVars == <<run_files, manifest_file>>

vars == <<intent, action, decision, pc, plan, effects, violations, gates,
          executed, tracker, rollback_file, signoff_file, summary_file,
          kpis, metrics, promotion_file, release_file, ret,
          proposed, proposed_for, normalized, trace, rollback_effects, files, hashed, cmd,
          run_files, manifest_file, history>>

----------------------------------------------------------------------------
(* Strings                                                                 *)

DOT == "."

\* "." in name
HasDot(name) == \E i \in 1..Len(name) : name[i] = DOT

\* index of the first "." of a name that has one
FirstDot(name) == CHOOSE i \in 1..Len(name) :
                      /\ name[i] = DOT
                      /\ \A j \in 1..(i - 1) : name[j] # DOT

----------------------------------------------------------------------------
(* Contract model (contract.py)                                            *)

\* str() of the args mapping of an ActionDef: "{}" when empty, otherwise a
\* brace-delimited rendering that no action name of the model contains.
ReprArgs(args) == IF DOMAIN args = {} THEN <<"{}">> ELSE <<"{...}">>

\* str() of a pydantic ActionDef: name='<name>' args=<args>
StrActionDef(a) == <<"name='">> \o a.name \o <<"' args=">> \o ReprArgs(a.args)

ActionDef(name, args) == [name |-> name, args |-> args]

ToolDef(name, actions) == [name |-> name, actions |-> actions]

----------------------------------------------------------------------------
(* Policy engine (policy.py)                                               *)

PolicyDecision(allow, gate, reason) ==
    [allow |-> allow, gate |-> gate, reason |-> reason]

\* name.split(".", 1)[-1] if "." in name else name
_suffix(name) ==
    IF HasDot(name) THEN SubSeq(name, FirstDot(name) + 1, Len(name)) ELSE name

\* { f"{t.name}:{a}" for t in allowed_tools for a in t.actions }
\* a is the ActionDef object, so the f-string renders str(a)
_allowed_tool_actions(it) ==
    UNION { { <<it.tooling[i].name, ":">> \o StrActionDef(it.tooling[i].actions[j]) :
                j \in 1..Len(it.tooling[i].actions) } :
            i \in 1..Len(it.tooling) }

\* check with the human-gate rule decided before the forbidden rule
check_gate_first(it, a) ==
    LET full == <<a.tool, ":">> \o a.name
        suffix == _suffix(a.name)
        allowed_surface == _allowed_tool_actions(it)
    IN  IF allowed_surface # {} /\ full \notin allowed_surface
        THEN PolicyDecision(FALSE, FALSE, "not_allowed")
        ELSE IF suffix \in it.human_only_gates
        THEN PolicyDecision(TRUE, TRUE, "human_approval")
        ELSE IF suffix \in it.forbidden_actions
        THEN PolicyDecision(FALSE, FALSE, "forbidden")
        ELSE PolicyDecision(TRUE, FALSE, "none")

\* check whose forbidden rule keeps the gate flag of a gated suffix
check_forbid_keeps_gate(it, a) ==
    LET full == <<a.tool, ":">> \o a.name
        suffix == _suffix(a.name)
        allowed_surface == _allowed_tool_actions(it)
    IN  IF allowed_surface # {} /\ full \notin allowed_surface
        THEN PolicyDecision(FALSE, FALSE, "not_allowed")
        ELSE IF suffix \in it.forbidden_actions
        THEN PolicyDecision(FALSE, suffix \in it.human_only_gates, "forbidden")
        ELSE IF suffix \in it.human_only_gates
        THEN PolicyDecision(TRUE, TRUE, "human_approval")
        ELSE PolicyDecision(TRUE, FALSE, "none")

check(it, a) ==
    LET full == <<a.tool, ":">> \o a.name
        suffix == _suffix(a.name)
        allowed_surface == _allowed_tool_actions(it)
    IN  IF allowed_surface # {} /\ full \notin allowed_surface
        THEN PolicyDecision(FALSE, FALSE, "not_allowed")
        ELSE IF suffix \in it.forbidden_actions
        THEN PolicyDecision(FALSE, FALSE, "forbidden")
        ELSE IF suffix \in it.human_only_gates
        THEN PolicyDecision(TRUE, TRUE, "human_approval")
        ELSE PolicyDecision(TRUE, FALSE, "none")

----------------------------------------------------------------------------
(* Python values and insertion-ordered dicts                               *)

PyNone == "<None>"

\* JSON values of the sign-off record's approved field, tagged by type
PyTrue == <<"bool", "True">>

PyFalse == <<"bool", "False">>

IsBool(v) == v[1] = "bool"

\* truth value Python gives a value under `not`
Truthy(v) == v \notin {PyFalse, <<"int", "0">>, <<"str", "">>}

\* a dict is the sequence of its items [k, v] in insertion order
EmptyDict == <<>>

DictHas(d, k) == \E i \in 1..Len(d) : d[i].k = k

DictIndex(d, k) == CHOOSE i \in 1..Len(d) : d[i].k = k

\* d.get(k): None when the key is absent
DictGet(d, k) == IF DictHas(d, k) THEN d[DictIndex(d, k)].v ELSE PyNone

\* d[k] = v: an existing key keeps its position, a new key goes last
DictPut(d, k, v) ==
    IF DictHas(d, k)
    THEN [d EXCEPT ![DictIndex(d, k)] = [k |-> k, v |-> v]]
    ELSE Append(d, [k |-> k, v |-> v])

\* d.setdefault(k, [])
DictSetDefaultList(d, k) == IF DictHas(d, k) THEN d ELSE Append(d, [k |-> k, v |-> <<>>])

\* d.setdefault(k, []).append(x)
DictAppendTo(d, k, x) ==
    LET d1 == DictSetDefaultList(d, k)
    IN  [d1 EXCEPT ![DictIndex(d1, k)] = [k |-> k, v |-> Append(@.v, x)]]

\* args.get(key, default) on an argument mapping (a function on its keys)
ArgGet(args, key, default) == IF key \in DOMAIN args THEN args[key] ELSE default

\* args.setdefault(key, value)
ArgSetDefault(args, key, value) ==
    IF key \in DOMAIN args THEN args ELSE (key :> value) @@ args

----------------------------------------------------------------------------
(* Mock tool and dispatcher (tools.py)                                     *)

\* state of IssueTrackerClient
NewTracker == [routes |-> EmptyDict, tags |-> EmptyDict, notes |-> EmptyDict]

\* outcome of a call: the tool afterwards, and either the returned result
\* or the exception that left the call
Returned(tr, res) == [tracker |-> tr, raised |-> FALSE, res |-> res]

Raised(tr, exc) == [tracker |-> tr, raised |-> TRUE, res |-> [ok |-> FALSE, error |-> exc]]

MissingId == [ok |-> FALSE, error |-> "missing id"]

\* IssueTrackerClient.call
IssueTrackerCall(tr, a) ==
    LET args == a.args
        rec_id == ArgGet(args, "id", PyNone)
    IN  IF a.name = <<"ticket", DOT, "route">>
        THEN IF rec_id = PyNone THEN Returned(tr, MissingId)
             ELSE IF "queue" \notin DOMAIN args THEN Raised(tr, "KeyError")
             ELSE Returned(
                    [tr EXCEPT !.routes = DictPut(@, rec_id, args["queue"])],
                    [ok |-> TRUE,
                     effect |-> [type |-> "route", id |-> rec_id, to |-> args["queue"],
                                 prev |-> DictGet(tr.routes, rec_id)]])
        ELSE IF a.name = <<"ticket", DOT, "tag">>
        THEN IF rec_id = PyNone THEN Returned(tr, MissingId)
             ELSE IF "tag" \notin DOMAIN args
             THEN Raised([tr EXCEPT !.tags = DictSetDefaultList(@, rec_id)], "KeyError")
             ELSE Returned(
                    [tr EXCEPT !.tags = DictAppendTo(@, rec_id, args["tag"])],
                    [ok |-> TRUE,
                     effect |-> [type |-> "tag", id |-> rec_id, tag |-> args["tag"]]])
        ELSE IF a.name = <<"ticket", DOT, "note_private">>
        THEN IF rec_id = PyNone THEN Returned(tr, MissingId)
             ELSE Returned(
                    [tr EXCEPT !.notes = DictAppendTo(@, rec_id, ArgGet(args, "text", ""))],
                    [ok |-> TRUE, effect |-> [type |-> "note", id |-> rec_id]])
        ELSE Returned(tr, [ok |-> FALSE, error |-> "unknown action"])

\* Toolset.dispatch: the toolset of a run holds the run's intent
Dispatch(it, tr, a) ==
    LET d == check(it, a)
    IN  IF ~d.allow
        THEN Returned(tr, [ok |-> FALSE, blocked |-> TRUE, reason |-> d.reason])
        ELSE IF d.gate
        THEN Returned(tr, [ok |-> FALSE, gate_required |-> TRUE, reason |-> d.reason])
        ELSE IF a.tool = "issue_tracker"
        THEN IssueTrackerCall(tr, a)
        ELSE Returned(tr, [ok |-> FALSE, error |-> "unknown tool"])

----------------------------------------------------------------------------
(* Promotion gate (gate.py)                                                *)

NoMetrics == <<>>

\* no sign-off command was run
NoCommand == [op |-> "none"]

\* no command has run yet
NoHistory ==
    [last_gate |-> "none", passed_once |-> FALSE, summarized |-> FALSE,
     approved_once |-> FALSE, approval_stands |-> FALSE]

NoReturn == [kind |-> "none"]

Ops == {">=", "<=", "==", ">", "<"}

Digits == {"0", "1", "2", "3", "4", "5", "6", "7", "8", "9"}

DigitValue(c) ==
    CASE c = "0" -> 0 [] c = "1" -> 1 [] c = "2" -> 2 [] c = "3" -> 3 [] c = "4" -> 4
      [] c = "5" -> 5 [] c = "6" -> 6 [] c = "7" -> 7 [] c = "8" -> 8 [] c = "9" -> 9

\* str.strip() on a token sequence whose whitespace token is " "
RECURSIVE LStrip(_)
LStrip(t) == IF t # <<>> /\ Head(t) = " " THEN LStrip(Tail(t)) ELSE t

RECURSIVE RStrip(_)
RStrip(t) == IF t # <<>> /\ t[Len(t)] = " " THEN RStrip(SubSeq(t, 1, Len(t) - 1)) ELSE t

Strip(t) == RStrip(LStrip(t))

\* the longest prefix of t made of digits and dots: what ([\d.]+) captures
RECURSIVE NumberRun(_)
NumberRun(t) ==
    IF t # <<>> /\ Head(t) \in Digits \cup {DOT}
    THEN <<Head(t)>> \o NumberRun(Tail(t))
    ELSE <<>>

\* value of a digit string as an integer
RECURSIVE IntOf(_)
IntOf(ds) == IF ds = <<>> THEN 0 ELSE 10 * IntOf(SubSeq(ds, 1, Len(ds) - 1)) + DigitValue(ds[Len(ds)])

\* float() accepts a run of digits with at most one dot and at least one digit
FloatOk(num) ==
    /\ Cardinality({i \in 1..Len(num) : num[i] = DOT}) <= 1
    /\ \E i \in 1..Len(num) : num[i] \in Digits

\* float(num) in hundredths, for a run with at most two fraction digits
FloatOf(num) ==
    IF HasDot(num)
    THEN LET d == FirstDot(num)
             frac == SubSeq(num, d + 1, Len(num))
         IN  100 * IntOf(SubSeq(num, 1, d - 1))
               + (IF Len(frac) = 0 THEN 0
                  ELSE IF Len(frac) = 1 THEN 10 * IntOf(frac)
                  ELSE IntOf(SubSeq(frac, 1, 2)))
    ELSE 100 * IntOf(num)

\* _target_re.match(target.strip()): the comparator and the captured number,
\* or no match
TargetMatch(target) ==
    LET t == Strip(target)
        rest == IF t = <<>> THEN <<>> ELSE LStrip(Tail(t))
        num == NumberRun(rest)
    IN  IF t # <<>> /\ Head(t) \in Ops /\ num # <<>>
        THEN [matched |-> TRUE, op |-> Head(t), num |-> num]
        ELSE [matched |-> FALSE, op |-> "", num |-> <<>>]

\* _compare: raises ValueError on a target that does not match or whose
\* number float() refuses, else the truth of the comparison
_compare(metric_value, target) ==
    LET m == TargetMatch(target)
    IN  IF ~m.matched THEN [raised |-> TRUE, ok |-> FALSE, error |-> "Bad KPI target syntax"]
        ELSE IF ~FloatOk(m.num)
        THEN [raised |-> TRUE, ok |-> FALSE, error |-> "could not convert string to float"]
        ELSE LET val == FloatOf(m.num)
             IN  [raised |-> FALSE, error |-> "",
                  ok |-> CASE m.op = ">=" -> metric_value >= val
                           [] m.op = "<=" -> metric_value <= val
                           [] m.op = "==" -> metric_value = val
                           [] m.op = ">"  -> metric_value > val
                           [] m.op = "<"  -> metric_value < val]

\* the breach decide_and_promote records for one KPI, or <<>> for none
KpiBreach(k, metrics_map) ==
    IF k.name \notin DOMAIN metrics_map
    THEN <<[name |-> k.name, reason |-> "metric not computed"]>>
    ELSE LET c == _compare(metrics_map[k.name], k.target)
         IN  IF c.raised THEN <<[name |-> k.name, reason |-> c.error]>>
             ELSE IF ~c.ok
             THEN <<[name |-> k.name, target |-> k.target, actual |-> metrics_map[k.name]]>>
             ELSE <<>>

\* the loop of decide_and_promote that stops at the first breach
RECURSIVE Breaches_fail_fast(_, _)
Breaches_fail_fast(ks, metrics_map) ==
    IF ks = <<>> THEN <<>>
    ELSE IF KpiBreach(Head(ks), metrics_map) # <<>>
    THEN KpiBreach(Head(ks), metrics_map)
    ELSE Breaches_fail_fast(Tail(ks), metrics_map)

\* the loop of decide_and_promote over intent["kpis"]
RECURSIVE Breaches(_, _)
Breaches(ks, metrics_map) ==
    IF ks = <<>> THEN <<>>
    ELSE KpiBreach(Head(ks), metrics_map) \o Breaches(Tail(ks), metrics_map)

\* KPI.check_target: the stripped target, or ValueError when it does not
\* match ^(>=|<=|==|>|<)\s*\d+(\.\d+)?([a-zA-Z_][a-zA-Z0-9_]*)?$
check_target(v) ==
    LET t == Strip(v)
        body == IF t = <<>> THEN <<>> ELSE LStrip(Tail(t))
        m == Len(body)
        Alpha == {"a", "b", "c", "d", "e", "f", "g", "h", "i", "j", "k", "l", "m",
                  "n", "o", "p", "q", "r", "s", "t", "u", "v", "w", "x", "y", "z",
                  "A", "B", "C", "D", "E", "F", "G", "H", "I", "J", "K", "L", "M",
                  "N", "O", "P", "Q", "R", "S", "T", "U", "V", "W", "X", "Y", "Z",
                  "_"}
        AllDigits(a, b) == a <= b /\ \A x \in a..b : body[x] \in Digits
        Unit(a) == a > m \/ (/\ body[a] \in Alpha
                              /\ \A x \in (a + 1)..m : body[x] \in Alpha \cup Digits)
        matched ==
            /\ t # <<>>
            /\ Head(t) \in Ops
            /\ \E i \in 1..m :
                  /\ AllDigits(1, i)
                  /\ \/ Unit(i + 1)
                     \/ \E j \in (i + 2)..m :
                           body[i + 1] = DOT /\ AllDigits(i + 2, j) /\ Unit(j + 1)
    IN  [raised |-> ~matched, value |-> t]

\* load_intent: the Intent validated from the document, or ValueError. The
\* model classes require purpose, kpis, tooling and datasets, and a name
\* and a target of every KPI; check_target is a plain classmethod that no
\* validator decorator registers, so validation never calls it.
load_intent(data) ==
    IF \/ {"purpose", "kpis", "tooling", "datasets"} \ DOMAIN data # {}
       \/ \E i \in 1..Len(data.kpis) : {"name", "target"} \ DOMAIN data.kpis[i] # {}
    THEN [kind |-> "raised", by |-> "load", error |-> "ValueError"]
    ELSE [kind |-> "load", intent |-> data]

\* the contents _hash_files reads, in its order: the intent file, the
\* metrics file, then the source files in the order glob returns them
HashedContents(fs) ==
    <<fs.intent, fs.metrics>> \o [i \in 1..Len(fs.src) |-> fs.src[i].bytes]

\* _hash_files: one SHA-256 fed with the contents one after the other. The
\* digest is modelled by the byte string it is a digest of (SHA-256 taken
\* as free of collisions), so two digests are equal exactly when the
\* concatenated bytes are.
RECURSIVE _hash_files(_)
_hash_files(contents) ==
    IF contents = <<>> THEN <<>>
    ELSE Head(contents) \o _hash_files(Tail(contents))

\* the promotion record of a passing evaluation (issued_at is left out)
Promotion(it, fs) ==
    [candidate |-> [intent |-> "intent.yaml",
                    metrics |-> "metrics.json",
                    src_files |-> SortSeq([i \in 1..Len(fs.src) |-> fs.src[i].n],
                                          LAMBDA x, y : x < y),
                    sha256 |-> _hash_files(HashedContents(fs))],
     decision |-> "promote",
     canary |-> IF "canary" \in DOMAIN it THEN it.canary ELSE EmptyDict]

\* an evaluation that writes the promotion record whatever the breaches
decide_and_promote_always_writes(it, ks, metrics_map, fs, promo_before) ==
    LET breaches == Breaches(ks, metrics_map)
        passed == Len(breaches) = 0
    IN  [result |-> [kind |-> "gate", passed |-> passed, breaches |-> breaches,
                     promotion_path |-> "promotion.json"],
         promotion |-> <<Promotion(it, fs)>>]

\* decide_and_promote: what it returns, and promotion.json afterwards
decide_and_promote(it, ks, metrics_map, fs, promo_before) ==
    LET breaches == Breaches(ks, metrics_map)
        passed == Len(breaches) = 0
    IN  [result |-> [kind |-> "gate", passed |-> passed, breaches |-> breaches,
                     promotion_path |-> IF passed THEN "promotion.json" ELSE PyNone],
         promotion |-> IF passed THEN <<Promotion(it, fs)>> ELSE promo_before]

----------------------------------------------------------------------------
(* Action normalizer (actions.py)                                          *)
(*                                                                         *)
(* Argument names, enum entries, synonyms and record ids are strings of    *)
(* single characters, so that lower() and strip() are computed character   *)
(* by character.  An argument value is a tuple whose first element is its  *)
(* Python type: <<"str", "b", "u", "g">> is the string "bug".              *)

\* str.lower() of one character
LowerChar(c) ==
    CASE c = "A" -> "a" [] c = "B" -> "b" [] c = "C" -> "c" [] c = "D" -> "d"
      [] c = "E" -> "e" [] c = "F" -> "f" [] c = "G" -> "g" [] c = "H" -> "h"
      [] c = "I" -> "i" [] c = "J" -> "j" [] c = "K" -> "k" [] c = "L" -> "l"
      [] c = "M" -> "m" [] c = "N" -> "n" [] c = "O" -> "o" [] c = "P" -> "p"
      [] c = "Q" -> "q" [] c = "R" -> "r" [] c = "S" -> "s" [] c = "T" -> "t"
      [] c = "U" -> "u" [] c = "V" -> "v" [] c = "W" -> "w" [] c = "X" -> "x"
      [] c = "Y" -> "y" [] c = "Z" -> "z" [] OTHER -> c

Lower(str) == [i \in 1..Len(str) |-> LowerChar(str[i])]

IsStr(v) == v[1] = "str"

StrValue(str) == <<"str">> \o str

StrOf(v) == Tail(v)

ArgSpec(required, enum, aliases) ==
    [required |-> required, enum |-> enum, aliases |-> aliases]

\* {x.name: x for x in xs}, continued from the dict d
RECURSIVE IndexByName(_, _)
IndexByName(xs, d) ==
    IF xs = <<>> THEN d
    ELSE IndexByName(Tail(xs), DictPut(d, Head(xs).name, Head(xs)))

_tool_index(it) == IndexByName(it.tooling, EmptyDict)

_action_index(tool) == IndexByName(tool.actions, EmptyDict)

\* the canonical name of the first argument spec whose name or one of whose
\* aliases equals arg_name without regard to case; else arg_name itself
_canonicalize_arg_name(arg_name, arg_specs) ==
    LET low == Lower(arg_name)
        hits == {i \in 1..Len(arg_specs) :
                    \/ low = Lower(arg_specs[i].k)
                    \/ \E j \in 1..Len(arg_specs[i].v.aliases) :
                          low = Lower(arg_specs[i].v.aliases[j])}
    IN  IF hits = {} THEN arg_name
        ELSE arg_specs[CHOOSE i \in hits : \A j \in hits : i <= j].k

\* {e.lower(): e for e in enum}, continued from the dict d
RECURSIVE ByLow(_, _)
ByLow(enum, d) ==
    IF enum = <<>> THEN d
    ELSE ByLow(Tail(enum), DictPut(d, Lower(Head(enum)), Head(enum)))

InEnum(str, enum) == \E i \in 1..Len(enum) : enum[i] = str

\* _apply_enum without the fallback: an unmatched value is kept
_apply_enum_no_fallback(value, spec, normalize_map) ==
    IF IsStr(value)
    THEN LET v0 == Strip(StrOf(value))
             v1 == IF DictHas(normalize_map, v0) THEN DictGet(normalize_map, v0) ELSE v0
             by_low == ByLow(spec.enum, EmptyDict)
             v2 == IF DictHas(by_low, Lower(v1)) THEN DictGet(by_low, Lower(v1)) ELSE v1
         IN  StrValue(IF spec.enum # <<>> THEN v2 ELSE v1)
    ELSE value

_apply_enum(value, spec, normalize_map) ==
    IF IsStr(value)
    THEN LET v0 == Strip(StrOf(value))
             v1 == IF DictHas(normalize_map, v0) THEN DictGet(normalize_map, v0) ELSE v0
             by_low == ByLow(spec.enum, EmptyDict)
             v2 == IF DictHas(by_low, Lower(v1)) THEN DictGet(by_low, Lower(v1)) ELSE v1
             v3 == IF InEnum(v2, spec.enum) THEN v2 ELSE spec.enum[Len(spec.enum)]
         IN  StrValue(IF spec.enum # <<>> THEN v3 ELSE v1)
    ELSE value

\* intent.domain.synonyms, or {} for a contract without domain or synonyms
NormalizeMap(it) ==
    IF "domain" \in DOMAIN it THEN it.domain.synonyms ELSE EmptyDict

\* the loop that canonicalizes the argument names of raw_args into canon_args
RECURSIVE CanonArgs(_, _, _)
CanonArgs(raw_args, arg_specs, canon_args) ==
    IF raw_args = <<>> THEN canon_args
    ELSE CanonArgs(Tail(raw_args), arg_specs,
                   DictPut(canon_args,
                           _canonicalize_arg_name(Head(raw_args).k, arg_specs),
                           Head(raw_args).v))

\* the "id" argument name
ID == <<"i", "d">>

\* canon_args.setdefault("id", record_id) when the schema requires an id
BindId(canon_args, arg_specs, record_id) ==
    IF DictHas(arg_specs, ID) /\ DictGet(arg_specs, ID).required /\ ~DictHas(canon_args, ID)
    THEN DictPut(canon_args, ID, StrValue(record_id))
    ELSE canon_args

\* the required check left out: no action is skipped for a missing argument
MissingRequired_ignored(canon_args, arg_specs) == FALSE

MissingRequired(canon_args, arg_specs) ==
    \E i \in 1..Len(arg_specs) :
        arg_specs[i].v.required /\ ~DictHas(canon_args, arg_specs[i].k)

\* the loop over arg_specs that applies _apply_enum to every argument present
RECURSIVE EnforceEnums(_, _, _)
EnforceEnums(canon_args, arg_specs, normalize_map) ==
    IF arg_specs = <<>> THEN canon_args
    ELSE LET name == Head(arg_specs).k
             spec == Head(arg_specs).v
         IN  EnforceEnums(
                IF DictHas(canon_args, name)
                THEN DictPut(canon_args, name,
                             _apply_enum(DictGet(canon_args, name), spec, normalize_map))
                ELSE canon_args,
                Tail(arg_specs), normalize_map)

\* the first loop without its two surface tests: an action of an undeclared
\* tool or name is appended as proposed
NormalizeOne_keeps_undeclared(it, record_id, a) ==
    LET tools == _tool_index(it)
    IN  IF ~DictHas(tools, a.tool) THEN <<a>>
        ELSE LET acts == _action_index(DictGet(tools, a.tool))
             IN  IF ~DictHas(acts, a.name) THEN <<a>>
                 ELSE LET arg_specs == DictGet(acts, a.name).args
                          canon_args == BindId(CanonArgs(a.args, arg_specs, EmptyDict),
                                               arg_specs, record_id)
                      IN  IF MissingRequired(canon_args, arg_specs) THEN <<>>
                          ELSE <<[tool |-> a.tool, name |-> a.name,
                                  args |-> EnforceEnums(canon_args, arg_specs,
                                                        NormalizeMap(it))]>>

\* body of the first loop for one proposed action: <<>> when the action is
\* skipped, else <<the normalized action>>
NormalizeOne(it, record_id, a) ==
    LET tools == _tool_index(it)
    IN  IF ~DictHas(tools, a.tool) THEN <<>>
        ELSE LET acts == _action_index(DictGet(tools, a.tool))
             IN  IF ~DictHas(acts, a.name) THEN <<>>
                 ELSE LET arg_specs == DictGet(acts, a.name).args
                          canon_args == BindId(CanonArgs(a.args, arg_specs, EmptyDict),
                                               arg_specs, record_id)
                      IN  IF MissingRequired(canon_args, arg_specs) THEN <<>>
                          ELSE <<[tool |-> a.tool, name |-> a.name,
                                  args |-> EnforceEnums(canon_args, arg_specs,
                                                        NormalizeMap(it))]>>

RECURSIVE NormalizedOut(_, _, _)
NormalizedOut(it, record_id, actions) ==
    IF actions = <<>> THEN <<>>
    ELSE NormalizeOne(it, record_id, Head(actions))
           \o NormalizedOut(it, record_id, Tail(actions))

\* the minimality loop with its test inverted: the first occurrence of a
\* pair is skipped and the later ones are kept
RECURSIVE Filtered_keeps_later(_, _)
Filtered_keeps_later(normalized_out, seen) ==
    IF normalized_out = <<>> THEN <<>>
    ELSE LET a == Head(normalized_out)
             key == <<a.tool, a.name>>
         IN  IF key \in seen
             THEN <<a>> \o Filtered_keeps_later(Tail(normalized_out), seen)
             ELSE Filtered_keeps_later(Tail(normalized_out), seen \cup {key})

\* the minimality loop keeping the last occurrence of a pair instead of
\* the first
RECURSIVE Filtered_keeps_last(_, _)
Filtered_keeps_last(normalized_out, seen) ==
    IF normalized_out = <<>> THEN <<>>
    ELSE LET a == Head(normalized_out)
             rest == Tail(normalized_out)
         IN  IF \E i \in 1..Len(rest) : rest[i].tool = a.tool /\ rest[i].name = a.name
             THEN Filtered_keeps_last(rest, seen)
             ELSE <<a>> \o Filtered_keeps_last(rest, seen)

\* the minimality loop: the first occurrence per (tool, name)
RECURSIVE Filtered(_, _)
Filtered(normalized_out, seen) ==
    IF normalized_out = <<>> THEN <<>>
    ELSE LET a == Head(normalized_out)
             key == <<a.tool, a.name>>
         IN  IF key \in seen
             THEN Filtered(Tail(normalized_out), seen)
             ELSE <<a>> \o Filtered(Tail(normalized_out), seen \cup {key})

\* the safety cap: the length of filtered[:10]
SafetyCap == 10

\* the normalizer without the safety cap
validate_and_normalize_actions_uncapped(it, record_id, actions) ==
    Filtered(NormalizedOut(it, record_id, actions), {})

validate_and_normalize_actions(it, record_id, actions) ==
    LET filtered == Filtered(NormalizedOut(it, record_id, actions), {})
    IN  SubSeq(filtered, 1, IF Len(filtered) < SafetyCap THEN Len(filtered) ELSE SafetyCap)

----------------------------------------------------------------------------
(* Inputs of the policy specification                                      *)

NoArgs == <<>>

\* input choices of the specifications:
\*   step_ids: record id of the i-th step of a plan; a plan has at most these steps
\*   times: timestamps int(time.time()) may return
\*   kpi_names: names a KPI may carry
\*   reviewers: --reviewer options ("" when left out)
\*   notes: --notes options ("" when left out)
\*   edited_approved: values a reviewer editing human_signoff.json by hand may leave in approved
\*   prior_signoffs: sign-off files an earlier sign-off operation or run may have left
\*   stored_signoffs: sign-off files the sign-off commands may find
Choice ==
    [step_ids |->
        <<"r1", "r2">>,
     times |->
        {1, 2},
     kpi_names |->
        {"f1_macro", "latency_ms_p95", "accuracy"},
     reviewers |->
        {"", "ann"},
     notes |->
        {"", "ok"},
     edited_approved |->
        {PyTrue, <<"str", "true">>, <<"int", "1">>},
     prior_signoffs |->
        { <<>>, <<[approved |-> PyTrue, reviewer |-> "ann", notes |-> "", timestamp |-> 1]>> },
     stored_signoffs |->
        {<<>>} \cup { <<rec>> : rec \in [approved : {PyTrue, PyFalse}, reviewer : {"", "ann", "bob"}, notes : {"", "ok", "no"}, timestamp : {1}] }]

\* action names; repr is literally the rendering of a declared ActionDef
Name ==
    [route |-> <<"ticket", DOT, "route">>,
     tag   |-> <<"ticket", DOT, "tag">>,
     note  |-> <<"ticket", DOT, "note_private">>,
     close |-> <<"ticket", DOT, "close">>,
     deep  |-> <<"crm", DOT, "ticket", DOT, "close">>,
     plain |-> <<"close">>,
     repr  |-> StrActionDef(ActionDef(<<"ticket", DOT, "route">>, NoArgs))]

ActionNames == {Name.route, Name.tag, Name.close, Name.deep, Name.plain, Name.repr}

ToolNames == {"issue_tracker", "crm"}

NoAction == [tool |-> "", name |-> <<>>, args |-> NoArgs]

NoDecision == [allow |-> FALSE, gate |-> FALSE, reason |-> "unset"]

PolicyActions == [tool : ToolNames, name : ActionNames, args : {NoArgs}]

AD(name) == ActionDef(name, NoArgs)

Toolings ==
    { <<>>,
      <<ToolDef("issue_tracker", <<>>)>>,
      <<ToolDef("issue_tracker", <<AD(Name.route), AD(Name.tag)>>)>>,
      <<ToolDef("issue_tracker", <<AD(Name.route), AD(Name.close), AD(Name.deep)>>)>>,
      <<ToolDef("issue_tracker", <<AD(Name.route)>>),
        ToolDef("crm", <<AD(Name.close), AD(Name.plain)>>)>> }

\* entries a contract may list in forbidden_actions / human_only_gates
PolicyEntries == {<<"close">>, <<"route">>, Name.close, <<"route", "' args=", "{}">>}

Intents ==
    [tooling : Toolings,
     forbidden_actions : SUBSET PolicyEntries,
     human_only_gates : SUBSET PolicyEntries]

\* the (tool, name) pairs the contract declares
Surface(it) ==
    UNION { { <<it.tooling[i].name, it.tooling[i].actions[j].name>> :
                j \in 1..Len(it.tooling[i].actions) } :
            i \in 1..Len(it.tooling) }

Declared(it, a) == <<a.tool, a.name>> \in Surface(it)

----------------------------------------------------------------------------
(* Specification of the policy engine: any contract, any action            *)

\* no canary run has started and no artifact exists
InitNoCanary ==
    /\ pc = "idle"
    /\ plan = <<>>
    /\ effects = <<>>
    /\ violations = 0
    /\ gates = 0
    /\ executed = 0
    /\ tracker = NewTracker
    /\ rollback_file = <<>>
    /\ summary_file = <<>>
    /\ rollback_effects = <<>>

\* the normalizer has no input and has not run
InitNoNormalize ==
    /\ proposed = <<>>
    /\ proposed_for = <<>>
    /\ normalized = <<>>
    /\ trace = <<>>

\* contents of the hashed files: a token stands for the text of a document
\* or module, " " for a blank the parsers skip. plain is the tree as checked
\* out; the others differ from it in a blank after the intent document, a
\* blank before the metrics document, both, an edited module, or one
\* module less. glob returns the modules in directory order, not sorted.
Tree ==
    [plain    |-> [intent |-> <<"k">>, metrics |-> <<"m">>,
                   src |-> <<[n |-> 2, bytes |-> <<"b">>], [n |-> 1, bytes |-> <<"a">>]>>],
     trailing |-> [intent |-> <<"k", " ">>, metrics |-> <<"m">>,
                   src |-> <<[n |-> 2, bytes |-> <<"b">>], [n |-> 1, bytes |-> <<"a">>]>>],
     leading  |-> [intent |-> <<"k">>, metrics |-> <<" ", "m">>,
                   src |-> <<[n |-> 2, bytes |-> <<"b">>], [n |-> 1, bytes |-> <<"a">>]>>],
     both     |-> [intent |-> <<"k", " ">>, metrics |-> <<" ", "m">>,
                   src |-> <<[n |-> 2, bytes |-> <<"b">>], [n |-> 1, bytes |-> <<"a">>]>>],
     edited   |-> [intent |-> <<"k">>, metrics |-> <<"m">>,
                   src |-> <<[n |-> 2, bytes |-> <<"c">>], [n |-> 1, bytes |-> <<"a">>]>>],
     removed  |-> [intent |-> <<"k">>, metrics |-> <<"m">>,
                   src |-> <<[n |-> 2, bytes |-> <<"b">>]>>]]

\* no gate input, no promotion, no release, nothing returned yet
InitNoGate ==
    /\ kpis = <<>>
    /\ metrics = NoMetrics
    /\ promotion_file = <<>>
    /\ release_file = <<>>
    /\ ret = NoReturn
    /\ files = Tree.plain
    /\ hashed = <<>>
    /\ cmd = NoCommand
    /\ run_files = <<>>
    /\ manifest_file = <<>>
    /\ history = NoHistory

InitPolicy ==
    /\ intent \in Intents
    /\ action = NoAction
    /\ decision = NoDecision
    /\ InitNoCanary
    /\ InitNoNormalize
    /\ InitNoGate
    /\ signoff_file = <<>>

PolicyCheck ==
    \E a \in PolicyActions :
        /\ action' = a
        /\ decision' = check(intent, a)
        /\ UNCHANGED <<intent, history, auditVars, normVars, rollbackVars, hashVars, cmd, canaryVars, signoff_file, gateVars>>

SpecPolicy ==
    InitPolicy /\ [][ PolicyCheck ]_vars

Checked == action # NoAction

----------------------------------------------------------------------------
(* Canary run (execution.py)                                               *)

\* bound on the number of actions of the plan a run reads
MaxPlanActions == 3

PlanAction(tool, name, args) == [tool |-> tool, name |-> name, args |-> args]

\* actions a plan of the canary specification is made of
Planned ==
    [route     |-> PlanAction("issue_tracker", Name.route, [queue |-> "billing"]),
     route_ext |-> PlanAction("issue_tracker", Name.route, [id |-> "x9", queue |-> "bug"]),
     route_noq |-> PlanAction("issue_tracker", Name.route, NoArgs),
     route_nil |-> PlanAction("issue_tracker", Name.route, [id |-> PyNone, queue |-> "bug"]),
     tag       |-> PlanAction("issue_tracker", Name.tag, [tag |-> "vip"]),
     note      |-> PlanAction("issue_tracker", Name.note, NoArgs),
     close     |-> PlanAction("issue_tracker", Name.close, NoArgs),
     crm       |-> PlanAction("crm", Name.route, [queue |-> "billing"])]

PlanActions == {Planned[k] : k \in DOMAIN Planned}

\* contracts of the canary specification: no surface and no rules; no
\* surface, a forbidden suffix and a gated suffix; a declared surface
CanaryIntent ==
    [open    |-> [tooling |-> <<>>, forbidden_actions |-> {}, human_only_gates |-> {}],
     rules   |-> [tooling |-> <<>>, forbidden_actions |-> {<<"close">>},
                  human_only_gates |-> {<<"tag">>},
                  canary |-> [sample_size |-> 5, rollback_on |-> <<"f1_macro">>]],
     surface |-> [tooling |-> <<ToolDef("issue_tracker", <<AD(Name.route), AD(Name.tag)>>)>>,
                  forbidden_actions |-> {<<"close">>}, human_only_gates |-> {}]]

\* number of actions in the steps read so far
RECURSIVE PlanSize(_)
PlanSize(p) == IF p = <<>> THEN 0 ELSE Len(Head(p).actions) + PlanSize(Tail(p))

\* the in-memory state of a run as one value
RunState(log, v, g, e, tr) ==
    [log |-> log, violations |-> v, gates |-> g, executed |-> e, tracker |-> tr,
     raised |-> FALSE]

\* the action run_canary evaluates: a copy of the planned action with the
\* step's record id bound as "id" when the plan gives none
BoundAction(rec_id, a) ==
    [tool |-> a.tool, name |-> a.name, args |-> ArgSetDefault(a.args, "id", rec_id)]

\* the loop body without the continue that ends a refused action: the
\* action is logged as refused and then handed to the tool all the same
CanaryBody_no_continue(it, st, rec_id, a) ==
    LET act == BoundAction(rec_id, a)
        pd == check(it, act)
        st1 == IF ~pd.allow
               THEN [st EXCEPT
                       !.violations = @ + 1,
                       !.log = Append(@, [record_id |-> rec_id, action |-> act,
                                          policy |-> "blocked", reason |-> pd.reason])]
               ELSE IF pd.gate
               THEN [st EXCEPT
                       !.gates = @ + 1,
                       !.log = Append(@, [record_id |-> rec_id, action |-> act,
                                          policy |-> "gate_required", reason |-> pd.reason])]
               ELSE st
        out == IF a.tool = "issue_tracker"
               THEN IssueTrackerCall(st1.tracker, act)
               ELSE Returned(st1.tracker, [ok |-> FALSE, error |-> "unknown tool"])
    IN  IF out.raised
        THEN [st1 EXCEPT !.tracker = out.tracker, !.raised = TRUE]
        ELSE [st1 EXCEPT
                !.tracker = out.tracker,
                !.executed = @ + (IF out.res.ok THEN 1 ELSE 0),
                !.log = Append(@, [record_id |-> rec_id, action |-> act,
                                   result |-> out.res])]

\* body of run_canary's inner loop for one planned action
\* run_canary's loop body counting every dispatch as executed
CanaryBody_counts_every_dispatch(it, st, rec_id, a) ==
    LET act == BoundAction(rec_id, a)
        pd == check(it, act)
    IN  IF ~pd.allow
        THEN [st EXCEPT
                !.violations = @ + 1,
                !.log = Append(@, [record_id |-> rec_id, action |-> act,
                                   policy |-> "blocked", reason |-> pd.reason])]
        ELSE IF pd.gate
        THEN [st EXCEPT
                !.gates = @ + 1,
                !.log = Append(@, [record_id |-> rec_id, action |-> act,
                                   policy |-> "gate_required", reason |-> pd.reason])]
        ELSE LET out == Dispatch(it, st.tracker, act)
             IN  IF out.raised
                 THEN [st EXCEPT !.tracker = out.tracker, !.raised = TRUE]
                 ELSE [st EXCEPT
                         !.tracker = out.tracker,
                         !.executed = @ + 1,
                         !.log = Append(@, [record_id |-> rec_id, action |-> act,
                                            result |-> out.res])]

CanaryBody(it, st, rec_id, a) ==
    LET act == BoundAction(rec_id, a)
        pd == check(it, act)
    IN  IF ~pd.allow
        THEN [st EXCEPT
                !.violations = @ + 1,
                !.log = Append(@, [record_id |-> rec_id, action |-> act,
                                   policy |-> "blocked", reason |-> pd.reason])]
        ELSE IF pd.gate
        THEN [st EXCEPT
                !.gates = @ + 1,
                !.log = Append(@, [record_id |-> rec_id, action |-> act,
                                   policy |-> "gate_required", reason |-> pd.reason])]
        ELSE LET out == Dispatch(it, st.tracker, act)
             IN  IF out.raised
                 THEN [st EXCEPT !.tracker = out.tracker, !.raised = TRUE]
                 ELSE [st EXCEPT
                         !.tracker = out.tracker,
                         !.executed = @ + (IF out.res.ok THEN 1 ELSE 0),
                         !.log = Append(@, [record_id |-> rec_id, action |-> act,
                                            result |-> out.res])]

\* one line of rollback_plan.jsonl per item of the tool's routes
RollbackPlan(routes) ==
    [i \in 1..Len(routes) |->
        [record_id |-> routes[i].k,
         actions |-> <<[tool |-> "issue_tracker", name |-> Name.route,
                        args |-> [id |-> routes[i].k, queue |-> "general"]]>>]]

SignoffTemplate(t) == [approved |-> PyFalse, reviewer |-> "", notes |-> "", timestamp |-> t]

\* run_canary up to the opening of the effect log
CanaryStart ==
    /\ pc = "idle"
    /\ pc' = "loop"
    /\ plan' = <<>>
    /\ effects' = << <<>> >>
    /\ violations' = 0
    /\ gates' = 0
    /\ executed' = 0
    /\ tracker' = NewTracker
    /\ UNCHANGED <<intent, history, auditVars, normVars, rollbackVars, hashVars, cmd, policyVars, rollback_file, signoff_file, summary_file, gateVars>>

\* the outer loop reads the next step of the plan file
CanaryReadStep ==
    /\ pc = "loop"
    /\ Len(plan) < Len(Choice.step_ids)
    /\ plan' = Append(plan, [record_id |-> Choice.step_ids[Len(plan) + 1], actions |-> <<>>])
    /\ UNCHANGED <<intent, history, auditVars, normVars, rollbackVars, hashVars, cmd, policyVars, pc, effects, violations, gates, executed,
                   tracker, rollback_file, signoff_file, summary_file, gateVars>>

\* the inner loop evaluates the next action of the current step
CanaryAction(choices) ==
    /\ pc = "loop"
    /\ plan # <<>>
    /\ PlanSize(plan) < MaxPlanActions
    /\ \E a \in choices :
        LET rec_id == plan[Len(plan)].record_id
            st == CanaryBody(intent,
                             RunState(effects[1], violations, gates, executed, tracker),
                             rec_id, a)
        IN  /\ plan' = [plan EXCEPT ![Len(plan)].actions = Append(@, a)]
            /\ effects' = <<st.log>>
            /\ violations' = st.violations
            /\ gates' = st.gates
            /\ executed' = st.executed
            /\ tracker' = st.tracker
            /\ pc' = IF st.raised THEN "raised" ELSE "loop"
    /\ UNCHANGED <<intent, history, auditVars, normVars, rollbackVars, hashVars, cmd, policyVars, rollback_file, signoff_file, summary_file, gateVars>>

\* the plan is exhausted: rollback plan, sign-off template and summary
CanaryFinish ==
    /\ pc = "loop"
    /\ pc' = "done"
    /\ rollback_file' = <<RollbackPlan(tracker.routes)>>
    /\ \E t \in Choice.times : signoff_file' = <<SignoffTemplate(t)>>
    /\ summary_file' = <<[executed_actions |-> executed,
                          policy_violations |-> violations,
                          human_gates |-> gates]>>
    /\ UNCHANGED <<intent, history, auditVars, normVars, rollbackVars, hashVars, cmd, policyVars, plan, effects, violations, gates, executed,
                   tracker, gateVars>>

InitCanary ==
    /\ intent \in {CanaryIntent[k] : k \in DOMAIN CanaryIntent}
    /\ action = NoAction
    /\ decision = NoDecision
    /\ InitNoCanary
    /\ InitNoNormalize
    /\ InitNoGate
    /\ signoff_file \in Choice.prior_signoffs

SpecCanary ==
    InitCanary /\ [][ CanaryStart \/ CanaryReadStep \/ CanaryAction(PlanActions) \/ CanaryFinish ]_vars

----------------------------------------------------------------------------
(* Specification of the promotion gate: any KPI list, one evaluation       *)

MaxKpis == 2

\* KPI target strings
Target ==
    [ge80    |-> <<">=", " ", "0", DOT, "8", "0">>,
     lt80    |-> <<"<", "0", DOT, "8">>,
     le400ms |-> <<"<=", " ", "4", "0", "0", "m", "s">>,
     noop    |-> <<"0", DOT, "8">>,
     twodots |-> <<">=", "0", DOT, "8", DOT, "1">>,
     junk    |-> <<">=", " ", "0", DOT, "5", " ", "%">>,
     padded  |-> <<" ", "==", "0", DOT, "9", " ">>]

Targets == {Target[k] : k \in DOMAIN Target}

Kpis == [name : Choice.kpi_names, target : Targets]

KpiLists == UNION { [1..n -> Kpis] : n \in 0..MaxKpis }

\* metrics_map: the three metrics decide_and_promote reads, in hundredths
MetricsMap(f1) ==
    [f1_macro |-> f1, latency_ms_p95 |-> 35000, forbidden_action_rate |-> 0]

MetricsChoices == {MetricsMap(75), MetricsMap(90)}

InitGate ==
    /\ intent = CanaryIntent.open
    /\ action = NoAction
    /\ decision = NoDecision
    /\ InitNoCanary
    /\ InitNoNormalize
    /\ signoff_file = <<>>
    /\ kpis \in KpiLists
    /\ metrics \in MetricsChoices
    /\ files = Tree.plain
    /\ \/ promotion_file = <<>> /\ hashed = <<>>
       \/ /\ promotion_file = <<Promotion(intent, files)>>
          /\ hashed = <<HashedContents(files)>>
    /\ release_file = <<>>
    /\ ret = NoReturn
    /\ cmd = NoCommand
    /\ run_files = <<>>
    /\ manifest_file = <<>>
    /\ history = NoHistory

\* idc gate evaluate
GateEvaluate ==
    /\ pc = "idle"
    /\ LET out == decide_and_promote(intent, kpis, metrics, files, promotion_file)
       IN  /\ ret' = out.result
           /\ promotion_file' = out.promotion
           /\ hashed' = IF out.result.passed THEN <<HashedContents(files)>> ELSE hashed
    /\ UNCHANGED <<intent, history, auditVars, normVars, rollbackVars, files, cmd, policyVars, canaryVars,
                   signoff_file, kpis, metrics, release_file>>

\* load_intent on the intent file whose kpis section is kpis
LoadIntent ==
    /\ pc = "idle"
    /\ ret' = load_intent([purpose |-> "triage", kpis |-> kpis,
                           tooling |-> [allowed_tools |-> <<>>],
                           datasets |-> [simulation |-> "sim", acceptance |-> "acc"]])
    /\ UNCHANGED <<intent, history, auditVars, normVars, rollbackVars, hashVars, cmd, policyVars, canaryVars,
                   signoff_file, kpis, metrics, promotion_file, release_file>>

SpecGate ==
    InitGate /\ [][ GateEvaluate \/ LoadIntent ]_vars

----------------------------------------------------------------------------
(* Human sign-off store (signoff.py)                                       *)

\* _read: the stored record, or an unapproved default when the file is absent
SignoffRead(file, t) ==
    IF file = <<>>
    THEN [approved |-> PyFalse, reviewer |-> "", notes |-> "", timestamp |-> t]
    ELSE file[1]

\* an update that stores the options as given, also when they are left out
SignoffUpdate_overwrites(data, approved, reviewer, notes, t) ==
    [approved |-> approved, reviewer |-> reviewer, notes |-> notes, timestamp |-> t] @@ data

\* data.update({...}) of approve and reject: other keys of data are kept
SignoffUpdate(data, approved, reviewer, notes, t) ==
    [approved |-> approved,
     reviewer |-> IF reviewer # "" THEN reviewer ELSE ArgGet(data, "reviewer", ""),
     notes |-> IF notes # "" THEN notes ELSE ArgGet(data, "notes", ""),
     timestamp |-> t] @@ data

SignoffInit ==
    /\ pc = "idle"
    /\ \E r \in Choice.reviewers, n \in Choice.notes, t \in Choice.times :
          signoff_file' = <<[approved |-> PyFalse, reviewer |-> r, notes |-> n,
                             timestamp |-> t]>>
    /\ ret' = NoReturn
    /\ UNCHANGED <<intent, history, auditVars, normVars, rollbackVars, hashVars, cmd, policyVars, canaryVars, kpis, metrics, promotion_file,
                   release_file>>

SignoffApprove ==
    /\ pc = "idle"
    /\ \E r \in Choice.reviewers, n \in Choice.notes, t \in Choice.times :
          signoff_file' = <<SignoffUpdate(SignoffRead(signoff_file, t), PyTrue, r, n, t)>>
    /\ ret' = NoReturn
    /\ UNCHANGED <<intent, history, auditVars, normVars, rollbackVars, hashVars, cmd, policyVars, canaryVars, kpis, metrics, promotion_file,
                   release_file>>

\* reject whose update leaves the approved field of the stored record alone
SignoffReject_keeps_approved ==
    /\ pc = "idle"
    /\ \E r \in Choice.reviewers, n \in Choice.notes, t \in Choice.times :
          LET data == SignoffRead(signoff_file, t)
          IN  signoff_file' = <<SignoffUpdate(data, ArgGet(data, "approved", PyFalse),
                                              r, n, t)>>
    /\ ret' = NoReturn
    /\ UNCHANGED <<intent, history, auditVars, normVars, rollbackVars, hashVars, cmd, policyVars, canaryVars, kpis, metrics, promotion_file,
                   release_file>>

SignoffReject ==
    /\ pc = "idle"
    /\ \E r \in Choice.reviewers, n \in Choice.notes, t \in Choice.times :
          signoff_file' = <<SignoffUpdate(SignoffRead(signoff_file, t), PyFalse, r, n, t)>>
    /\ ret' = NoReturn
    /\ UNCHANGED <<intent, history, auditVars, normVars, rollbackVars, hashVars, cmd, policyVars, canaryVars, kpis, metrics, promotion_file,
                   release_file>>

\* show: returns what _read gives and writes nothing
SignoffShow ==
    /\ pc = "idle"
    /\ \E t \in Choice.times : ret' = [kind |-> "show", data |-> SignoffRead(signoff_file, t)]
    /\ UNCHANGED <<intent, history, auditVars, normVars, rollbackVars, hashVars, cmd, policyVars, canaryVars, signoff_file, kpis, metrics,
                   promotion_file, release_file>>

WithoutKey(rec, key) == [k \in DOMAIN rec \ {key} |-> rec[k]]

\* the sign-off file is edited by hand: approved is set, or the field is lost
HumanEdit ==
    /\ pc = "idle"
    /\ signoff_file # <<>>
    /\ \/ \E v \in Choice.edited_approved :
             signoff_file' = <<[approved |-> v] @@ signoff_file[1]>>
       \/ signoff_file' = <<WithoutKey(signoff_file[1], "approved")>>
    /\ ret' = NoReturn
    /\ UNCHANGED <<intent, history, auditVars, normVars, rollbackVars, hashVars, cmd, policyVars, canaryVars, kpis, metrics, promotion_file,
                   release_file>>

InitSignoff ==
    /\ intent = CanaryIntent.open
    /\ action = NoAction
    /\ decision = NoDecision
    /\ InitNoCanary
    /\ InitNoNormalize
    /\ InitNoGate
    /\ signoff_file \in Choice.stored_signoffs

\* idc signoff approve | reject | show, the options as given on the command
\* line ("" when an option is left out)
SignoffCommand ==
    \E r \in Choice.reviewers, n \in Choice.notes, t \in Choice.times :
        /\ \/ /\ cmd' = [op |-> "approve", reviewer |-> r, notes |-> n]
              /\ signoff_file' =
                    <<SignoffUpdate(SignoffRead(signoff_file, t), PyTrue, r, n, t)>>
              /\ ret' = NoReturn
           \/ /\ cmd' = [op |-> "reject", reviewer |-> r, notes |-> n]
              /\ signoff_file' =
                    <<SignoffUpdate(SignoffRead(signoff_file, t), PyFalse, r, n, t)>>
              /\ ret' = NoReturn
           \/ /\ cmd' = [op |-> "show"]
              /\ ret' = [kind |-> "show", data |-> SignoffRead(signoff_file, t)]
              /\ UNCHANGED signoff_file
        /\ UNCHANGED <<intent, history, auditVars, normVars, rollbackVars, hashVars, policyVars, canaryVars,
                       kpis, metrics, promotion_file, release_file>>

SpecSignoff == InitSignoff /\ [][SignoffCommand]_vars

----------------------------------------------------------------------------
(* Release finalizer (hgate.py)                                            *)

\* an exception that left the command `by`
RaisedReturn(by, exc) == [kind |-> "raised", by |-> by, error |-> exc]

\* a descriptor whose notes are read from the reviewer field
Release_notes_from_reviewer(promo, sign) ==
    [candidate_sha256 |-> promo.candidate.sha256,
     intent |-> promo.candidate.intent,
     metrics |-> promo.candidate.metrics,
     canary |-> ArgGet(promo, "canary", EmptyDict),
     human_signoff |-> [approved |-> PyTrue,
                        reviewer |-> ArgGet(sign, "reviewer", ""),
                        notes |-> ArgGet(sign, "reviewer", ""),
                        timestamp |-> ArgGet(sign, "timestamp", PyNone)],
     source_files |-> promo.candidate.src_files,
     status |-> "approved"]

\* the release descriptor built from the promotion and the sign-off read
\* (issued_at is left out)
Release(promo, sign) ==
    [candidate_sha256 |-> promo.candidate.sha256,
     intent |-> promo.candidate.intent,
     metrics |-> promo.candidate.metrics,
     canary |-> ArgGet(promo, "canary", EmptyDict),
     human_signoff |-> [approved |-> PyTrue,
                        reviewer |-> ArgGet(sign, "reviewer", ""),
                        notes |-> ArgGet(sign, "notes", ""),
                        timestamp |-> ArgGet(sign, "timestamp", PyNone)],
     source_files |-> promo.candidate.src_files,
     status |-> "approved"]

\* finalize whose sign-off test is the truth value of approved alone
finalize_takes_truthy(promotion, canary_summary, human_signoff, release_before) ==
    IF promotion = <<>> \/ canary_summary = <<>> \/ human_signoff = <<>>
    THEN [result |-> RaisedReturn("finalize", "FileNotFoundError"), release |-> release_before]
    ELSE LET promo == promotion[1]
             canary == canary_summary[1]
             sign == human_signoff[1]
             b1 == IF canary.policy_violations > 0
                   THEN <<[breach |-> "policy_violations", n |-> canary.policy_violations]>>
                   ELSE <<>>
         IN  IF "approved" \notin DOMAIN sign
             THEN \* sign.get("approved", False) is a bool, so sign["approved"] is read
                  [result |-> RaisedReturn("finalize", "KeyError"), release |-> release_before]
             ELSE LET b2 == IF ~Truthy(sign.approved)
                            THEN <<[breach |-> "human_signoff not approved"]>>
                            ELSE <<>>
                      breaches == b1 \o b2
                  IN  IF breaches # <<>>
                      THEN [result |-> [kind |-> "finalize", ok |-> FALSE,
                                        reason |-> breaches],
                            release |-> release_before]
                      ELSE [result |-> [kind |-> "finalize", ok |-> TRUE,
                                        path |-> "release.json"],
                            release |-> <<Release(promo, sign)>>]

\* finalize that tests the canary summary only
finalize_skips_signoff(promotion, canary_summary, human_signoff, release_before) ==
    IF promotion = <<>> \/ canary_summary = <<>> \/ human_signoff = <<>>
    THEN [result |-> RaisedReturn("finalize", "FileNotFoundError"), release |-> release_before]
    ELSE LET promo == promotion[1]
             canary == canary_summary[1]
             sign == human_signoff[1]
             b1 == IF canary.policy_violations > 0
                   THEN <<[breach |-> "policy_violations", n |-> canary.policy_violations]>>
                   ELSE <<>>
         IN  IF "approved" \notin DOMAIN sign
             THEN \* sign.get("approved", False) is a bool, so sign["approved"] is read
                  [result |-> RaisedReturn("finalize", "KeyError"), release |-> release_before]
             ELSE LET b2 == IF ~IsBool(sign.approved) \/ ~Truthy(sign.approved)
                            THEN <<[breach |-> "human_signoff not approved"]>>
                            ELSE <<>>
                      breaches == b1
                  IN  IF breaches # <<>>
                      THEN [result |-> [kind |-> "finalize", ok |-> FALSE,
                                        reason |-> breaches],
                            release |-> release_before]
                      ELSE [result |-> [kind |-> "finalize", ok |-> TRUE,
                                        path |-> "release.json"],
                            release |-> <<Release(promo, sign)>>]

\* finalize: what it returns or raises, and release.json afterwards
finalize(promotion, canary_summary, human_signoff, release_before) ==
    IF promotion = <<>> \/ canary_summary = <<>> \/ human_signoff = <<>>
    THEN [result |-> RaisedReturn("finalize", "FileNotFoundError"), release |-> release_before]
    ELSE LET promo == promotion[1]
             canary == canary_summary[1]
             sign == human_signoff[1]
             b1 == IF canary.policy_violations > 0
                   THEN <<[breach |-> "policy_violations", n |-> canary.policy_violations]>>
                   ELSE <<>>
         IN  IF "approved" \notin DOMAIN sign
             THEN \* sign.get("approved", False) is a bool, so sign["approved"] is read
                  [result |-> RaisedReturn("finalize", "KeyError"), release |-> release_before]
             ELSE LET b2 == IF ~IsBool(sign.approved) \/ ~Truthy(sign.approved)
                            THEN <<[breach |-> "human_signoff not approved"]>>
                            ELSE <<>>
                      breaches == b1 \o b2
                  IN  IF breaches # <<>>
                      THEN [result |-> [kind |-> "finalize", ok |-> FALSE,
                                        reason |-> breaches],
                            release |-> release_before]
                      ELSE [result |-> [kind |-> "finalize", ok |-> TRUE,
                                        path |-> "release.json"],
                            release |-> <<Release(promo, sign)>>]

\* idc gate finalize
Finalize ==
    /\ pc = "idle"
    /\ LET out == finalize(promotion_file, summary_file, signoff_file, release_file)
       IN  /\ ret' = out.result
           /\ release_file' = out.release
    /\ UNCHANGED <<intent, history, auditVars, normVars, rollbackVars, hashVars, cmd, policyVars, canaryVars, signoff_file, kpis, metrics,
                   promotion_file>>

----------------------------------------------------------------------------
(* Specification of the pipeline: gate, canary, sign-off and finalize in   *)
(* any order, each command run to completion                               *)

PlanStep(record_id, actions) == [record_id |-> record_id, actions |-> actions]

\* the plan's actions in evaluation order, each with its step's record id
RECURSIVE Flatten(_)
Flatten(p) ==
    IF p = <<>> THEN <<>>
    ELSE [i \in 1..Len(Head(p).actions) |->
             [record_id |-> Head(p).record_id, a |-> Head(p).actions[i]]]
         \o Flatten(Tail(p))

\* run_canary's loops over a whole plan: an exception ends them
RECURSIVE RunLoop(_, _, _)
RunLoop(it, st, todo) ==
    IF todo = <<>> \/ st.raised THEN st
    ELSE RunLoop(it, CanaryBody(it, st, Head(todo).record_id, Head(todo).a), Tail(todo))

ReleasePlans ==
    { <<>>,
      <<PlanStep("r1", <<Planned.route>>)>>,
      <<PlanStep("r1", <<Planned.route, Planned.close>>), PlanStep("r2", <<Planned.tag>>)>>,
      <<PlanStep("r1", <<Planned.route_noq, Planned.close>>)>> }

\* idc canary run, from start to return or exception
CanaryRun ==
    /\ pc = "idle"
    /\ \E p \in ReleasePlans :
        LET st == RunLoop(intent, RunState(<<>>, 0, 0, 0, NewTracker), Flatten(p))
        IN  /\ effects' = <<st.log>>
            /\ IF st.raised
               THEN /\ ret' = RaisedReturn("canary", "KeyError")
                    /\ UNCHANGED <<rollback_file, signoff_file, summary_file>>
               ELSE /\ rollback_file' = <<RollbackPlan(st.tracker.routes)>>
                    /\ \E t \in Choice.times : signoff_file' = <<SignoffTemplate(t)>>
                    /\ summary_file' = <<[executed_actions |-> st.executed,
                                          policy_violations |-> st.violations,
                                          human_gates |-> st.gates]>>
                    /\ ret' = [kind |-> "canary", summary |-> summary_file'[1]]
    /\ UNCHANGED <<intent, history, auditVars, normVars, rollbackVars, hashVars, cmd, policyVars, pc, plan, violations, gates, executed, tracker,
                   kpis, metrics, promotion_file, release_file>>

K_f1 == [name |-> "f1_macro", target |-> Target.ge80]

Init ==
    /\ intent \in {CanaryIntent.open, CanaryIntent.rules}
    /\ action = NoAction
    /\ decision = NoDecision
    /\ InitNoCanary
    /\ InitNoNormalize
    /\ signoff_file = <<>>
    /\ kpis = <<K_f1>>
    /\ metrics \in MetricsChoices
    /\ promotion_file = <<>>
    /\ release_file = <<>>
    /\ ret = NoReturn
    /\ files = Tree.plain
    /\ hashed = <<>>
    /\ cmd = NoCommand
    /\ run_files = <<>>
    /\ manifest_file = <<>>
    /\ history = NoHistory

Next ==
    \/ GateEvaluate
    \/ CanaryRun
    \/ SignoffInit
    \/ SignoffApprove
    \/ SignoffReject
    \/ SignoffShow
    \/ HumanEdit
    \/ Finalize

Spec == Init /\ [][Next]_vars

----------------------------------------------------------------------------
(* Specification of the release pipeline with its history: gate            *)
(* evaluations over changing metrics, canary runs, the sign-off commands   *)
(* and finalize in any order, starting with no artifacts.  The sign-off    *)
(* file is written by the commands only.                                   *)

\* one command of the pipeline, run to completion
ReleaseCommand ==
    /\ pc = "idle"
    /\ \/ \* idc gate evaluate
          LET out == decide_and_promote(intent, kpis, metrics, files, promotion_file)
          IN  /\ ret' = out.result
              /\ promotion_file' = out.promotion
              /\ hashed' = IF out.result.passed THEN <<HashedContents(files)>> ELSE hashed
              /\ history' = [history EXCEPT
                                !.last_gate = IF out.result.passed THEN "passed" ELSE "failed",
                                !.passed_once = @ \/ out.result.passed]
              /\ UNCHANGED <<metrics, effects, rollback_file, signoff_file, summary_file,
                             release_file>>
       \/ \* idc test: the acceptance evaluation writes metrics.json anew
          /\ metrics' \in MetricsChoices \ {metrics}
          /\ ret' = NoReturn
          /\ UNCHANGED <<history, promotion_file, hashed, effects, rollback_file,
                         signoff_file, summary_file, release_file>>
       \/ \* idc canary run
          \E p \in ReleasePlans :
             LET st == RunLoop(intent, RunState(<<>>, 0, 0, 0, NewTracker), Flatten(p))
             IN  /\ effects' = <<st.log>>
                 /\ IF st.raised
                    THEN /\ ret' = RaisedReturn("canary", "KeyError")
                         /\ UNCHANGED <<rollback_file, signoff_file, summary_file>>
                    ELSE /\ rollback_file' = <<RollbackPlan(st.tracker.routes)>>
                         /\ signoff_file' = <<SignoffTemplate(1)>>
                         /\ summary_file' = <<[executed_actions |-> st.executed,
                                               policy_violations |-> st.violations,
                                               human_gates |-> st.gates]>>
                         /\ ret' = [kind |-> "canary", summary |-> summary_file'[1]]
                 /\ history' = [history EXCEPT
                                   !.summarized = @ \/ ~st.raised,
                                   !.approval_stands = FALSE]
                 /\ UNCHANGED <<metrics, promotion_file, hashed, release_file>>
       \/ \* idc signoff init / approve / reject
          \E op \in {"init", "approve", "reject"}, r \in Choice.reviewers :
             /\ signoff_file' =
                   IF op = "init"
                   THEN <<[approved |-> PyFalse, reviewer |-> r, notes |-> "",
                           timestamp |-> 1]>>
                   ELSE <<SignoffUpdate(SignoffRead(signoff_file, 1),
                                        IF op = "approve" THEN PyTrue ELSE PyFalse,
                                        r, "", 1)>>
             /\ ret' = [kind |-> "signoff", op |-> op]
             /\ history' = [history EXCEPT
                               !.approved_once = @ \/ op = "approve",
                               !.approval_stands = (op = "approve")]
             /\ UNCHANGED <<metrics, promotion_file, hashed, effects, rollback_file,
                            summary_file, release_file>>
       \/ \* idc gate finalize
          LET out == finalize(promotion_file, summary_file, signoff_file, release_file)
          IN  /\ ret' = out.result
              /\ release_file' = out.release
              /\ UNCHANGED <<history, metrics, promotion_file, hashed, effects,
                             rollback_file, signoff_file, summary_file>>
    /\ UNCHANGED <<intent, auditVars, normVars, rollbackVars, files, cmd, policyVars,
                   pc, plan, violations, gates, executed, tracker, kpis>>

SpecRelease == Init /\ [][ReleaseCommand]_vars

----------------------------------------------------------------------------
(* Specification of the promotion hash: gate evaluations of one contract   *)
(* and one metrics document while the hashed files are edited in between   *)

InitHash ==
    /\ intent \in {CanaryIntent.open, CanaryIntent.rules}
    /\ action = NoAction
    /\ decision = NoDecision
    /\ InitNoCanary
    /\ InitNoNormalize
    /\ signoff_file = <<>>
    /\ kpis = <<K_f1>>
    /\ metrics \in MetricsChoices
    /\ promotion_file = <<>>
    /\ release_file = <<>>
    /\ ret = NoReturn
    /\ files \in {Tree[k] : k \in DOMAIN Tree}
    /\ hashed = <<>>
    /\ cmd = NoCommand
    /\ run_files = <<>>
    /\ manifest_file = <<>>
    /\ history = NoHistory

\* the intent file, the metrics file or a module is edited on disk in a way
\* that leaves the parsed contract and metrics as they are
EditFiles ==
    /\ \E k \in DOMAIN Tree : files' = Tree[k] /\ files' # files
    /\ UNCHANGED <<intent, history, auditVars, normVars, rollbackVars, hashed, cmd, policyVars, canaryVars,
                   signoff_file, gateVars>>

SpecHash ==
    InitHash /\ [][ GateEvaluate \/ EditFiles ]_vars

----------------------------------------------------------------------------
(* Rollback replay (execution.py): a rollback plan a canary run emitted is *)
(* replayed under the contract the command is given                        *)

\* body of run_rollback's inner loop for one action of the rollback plan
RollbackBody(it, st, rec_id, a) ==
    LET out == Dispatch(it, st.tracker, a)
    IN  IF out.raised
        THEN [st EXCEPT !.tracker = out.tracker, !.raised = TRUE]
        ELSE [st EXCEPT
                !.tracker = out.tracker,
                !.log = Append(@, [record_id |-> rec_id, action |-> a,
                                   result |-> out.res])]

\* run_rollback's loops over a whole rollback plan
RECURSIVE run_rollback(_, _, _)
run_rollback(it, st, todo) ==
    IF todo = <<>> \/ st.raised THEN st
    ELSE run_rollback(it, RollbackBody(it, st, Head(todo).record_id, Head(todo).a),
                      Tail(todo))

\* the routes a canary run's tool may end with: tickets in the order of
\* their first routing
RoutesChoices ==
    { r \in UNION { [1..n -> [k : {"r1", "r2", "x9"}, v : {"billing"}]] : n \in 0..2 } :
        \A i, j \in 1..Len(r) : r[i].k = r[j].k => i = j }

InitRollback ==
    /\ intent \in Intents
    /\ action = NoAction
    /\ decision = NoDecision
    /\ InitNoNormalize
    /\ InitNoGate
    /\ signoff_file = <<>>
    /\ pc = "done"
    /\ plan = <<>>
    /\ effects = << <<>> >>
    /\ violations = 0
    /\ gates = 0
    /\ executed = 0
    /\ tracker = NewTracker
    /\ summary_file = <<>>
    /\ rollback_effects = <<>>
    /\ \E routes \in RoutesChoices : rollback_file = <<RollbackPlan(routes)>>

\* idc canary rollback, from start to return
RollbackRun ==
    /\ rollback_file # <<>>
    /\ rollback_effects = <<>>
    /\ LET st == run_rollback(intent, RunState(<<>>, 0, 0, 0, NewTracker),
                              Flatten(rollback_file[1]))
       IN  /\ rollback_effects' = <<st.log>>
           /\ tracker' = st.tracker
    /\ UNCHANGED <<intent, history, auditVars, normVars, hashVars, cmd, policyVars, pc, plan, effects, violations,
                   gates, executed, rollback_file, signoff_file, summary_file, gateVars>>

SpecRollback == InitRollback /\ [][RollbackRun]_vars

----------------------------------------------------------------------------
(* Specification of the action normalizer: a contract, a record id and a   *)
(* proposed plan; the normalizer runs on the proposal and then on its own  *)
(* output                                                                  *)

\* bound on the length of a proposed plan drawn freely from ProposedActions
MaxProposed == 2

\* argument names (queue .. pri), then argument values, enum entries and
\* synonyms
Str ==
    [queue |-> <<"q", "u", "e", "u", "e">>,
     TO    |-> <<"T", "O">>,
     to    |-> <<"t", "o">>,
     dest  |-> <<"d", "e", "s", "t">>,
     tag   |-> <<"t", "a", "g">>,
     pri   |-> <<"p", "r", "i">>,
     bug   |-> <<"b", "u", "g">>,
     pay   |-> <<"p", "a", "y">>,
     gen   |-> <<"g", "e", "n">>,
     bill  |-> <<"b", "i", "l", "l">>,
     Bug_padded |-> <<" ", "B", "u", "g", " ">>,
     zzz   |-> <<"z", "z", "z">>,
     vip   |-> <<"v", "i", "p">>,
     x9    |-> <<"x", "9">>,
     x9_padded |-> <<" ", "x", "9">>]

RecordIds == {<<"r", "1">>, <<"r", "2">>}

Item(k, v) == [k |-> k, v |-> v]

\* a contract as a project would write it: a required id bound to the
\* record, a required queue with an enum and aliases, and one synonym
I_std ==
    [tooling |-> <<ToolDef("issue_tracker",
        <<ActionDef(Name.route,
            <<Item(ID, ArgSpec(TRUE, <<>>, <<>>)),
              Item(Str.queue, ArgSpec(TRUE, <<Str.pay, Str.bug, Str.gen>>, <<Str.to>>))>>),
          ActionDef(Name.tag, <<Item(Str.tag, ArgSpec(TRUE, <<>>, <<>>))>>),
          ActionDef(Name.note, <<>>)>>)>>,
     forbidden_actions |-> {}, human_only_gates |-> {},
     domain |-> [synonyms |-> <<Item(Str.bill, Str.pay)>>]]

\* a contract the loader accepts as well: the alias of one argument is the
\* name of a later one, a synonym maps one enum entry to another, and the
\* tool is declared twice
I_odd ==
    [tooling |-> <<ToolDef("issue_tracker", <<ActionDef(Name.close, <<>>)>>),
                   ToolDef("issue_tracker",
        <<ActionDef(Name.route,
            <<Item(Str.dest, ArgSpec(FALSE, <<>>, <<Str.queue>>)),
              Item(Str.queue, ArgSpec(FALSE, <<Str.bug, Str.gen>>, <<Str.to>>))>>),
          ActionDef(Name.tag, <<Item(Str.tag, ArgSpec(FALSE, <<Str.gen, Str.bug>>, <<>>))>>)>>)>>,
     forbidden_actions |-> {}, human_only_gates |-> {},
     domain |-> [synonyms |-> <<Item(Str.gen, Str.bug)>>]]

\* names of the actions of the wide contract
WideNames == <<"0", "1", "2", "3", "4", "5", "6", "7", "8", "9", "a", "b">>

WideAction(i) == PlanAction("ops", <<"op", DOT, WideNames[i]>>, EmptyDict)

\* a contract that declares more actions than the safety cap lets through
I_wide ==
    [tooling |-> <<ToolDef("ops",
        [i \in 1..Len(WideNames) |-> ActionDef(<<"op", DOT, WideNames[i]>>, <<>>)])>>,
     forbidden_actions |-> {}, human_only_gates |-> {}]

\* actions an agent may propose under I_std and I_odd
Proposal ==
    [route |->
        PlanAction("issue_tracker", Name.route, <<Item(Str.queue, StrValue(Str.bug))>>),
     route_TO |->
        PlanAction("issue_tracker", Name.route,
            <<Item(Str.TO, StrValue(Str.Bug_padded)), Item(ID, StrValue(Str.x9))>>),
     route_bill |->
        PlanAction("issue_tracker", Name.route, <<Item(Str.to, StrValue(Str.bill))>>),
     route_zzz |->
        PlanAction("issue_tracker", Name.route,
            <<Item(Str.queue, StrValue(Str.zzz)), Item(Str.pri, <<"int", "5">>)>>),
     route_int |->
        PlanAction("issue_tracker", Name.route, <<Item(Str.queue, <<"int", "5">>)>>),
     route_id_padded |->
        PlanAction("issue_tracker", Name.route,
            <<Item(Str.queue, StrValue(Str.bug)), Item(ID, StrValue(Str.x9_padded))>>),
     route_id_bill |->
        PlanAction("issue_tracker", Name.route,
            <<Item(ID, StrValue(Str.bill)), Item(Str.queue, StrValue(Str.gen))>>),
     route_none |->
        PlanAction("issue_tracker", Name.route, EmptyDict),
     tag |->
        PlanAction("issue_tracker", Name.tag, <<Item(Str.tag, StrValue(Str.vip))>>),
     tag_none |->
        PlanAction("issue_tracker", Name.tag, EmptyDict),
     note |->
        PlanAction("issue_tracker", Name.note, EmptyDict),
     close |->
        PlanAction("issue_tracker", Name.close, EmptyDict),
     crm |->
        PlanAction("crm", Name.route, <<Item(Str.queue, StrValue(Str.bug))>>)]

ProposedActions == {Proposal[k] : k \in DOMAIN Proposal}

ShortPlans == UNION { [1..n -> ProposedActions] : n \in 0..MaxProposed }

\* n actions of the wide contract, starting at the r-th
WideRun(r, n) == [i \in 1..n |-> WideAction(((r + i - 2) % Len(WideNames)) + 1)]

\* plans around the safety cap: a run of distinct declared actions, alone,
\* after a repetition of its first action, after an undeclared action, and
\* twice over
LongPlans ==
    UNION { { WideRun(r, n),
              <<WideAction(r), WideAction(r)>> \o WideRun(r, n),
              <<Proposal.crm>> \o WideRun(r, n),
              WideRun(r, n) \o WideRun(r, n) } :
            r \in 1..Len(WideNames), n \in (SafetyCap - 1)..Len(WideNames) }

\* longer plans that mix skipped, repeated and accepted actions
CasePlans ==
    { <<Proposal.crm, Proposal.close, Proposal.tag>>,
      <<Proposal.route_none, Proposal.route_bill, Proposal.route>>,
      <<Proposal.tag_none, Proposal.route_none, Proposal.route>>,
      <<Proposal.tag, Proposal.route_TO, Proposal.tag, Proposal.note, Proposal.route_zzz>> }

InitNormalize ==
    /\ \/ intent \in {I_std, I_odd} /\ proposed \in ShortPlans \cup CasePlans
       \/ intent = I_wide /\ proposed \in LongPlans
    /\ proposed_for \in RecordIds
    /\ normalized = <<>>
    /\ trace = <<>>
    /\ action = NoAction
    /\ decision = NoDecision
    /\ InitNoCanary
    /\ InitNoGate
    /\ signoff_file = <<>>

\* the normalizer runs on the proposed plan
Normalize ==
    /\ normalized = <<>>
    /\ normalized' = <<validate_and_normalize_actions(intent, proposed_for, proposed)>>
    /\ UNCHANGED <<intent, history, auditVars, proposed, proposed_for, trace, policyVars, canaryVars,
                   signoff_file, gateVars, rollbackVars, hashVars, cmd>>

\* the normalizer runs again, on its own output
NormalizeAgain ==
    /\ normalized # <<>>
    /\ proposed' = normalized[1]
    /\ normalized' = <<validate_and_normalize_actions(intent, proposed_for, normalized[1])>>
    /\ UNCHANGED <<intent, history, auditVars, proposed_for, trace, policyVars, canaryVars, signoff_file, gateVars,
                   rollbackVars, hashVars, cmd>>

SpecNormalize ==
    InitNormalize /\ [][ Normalize \/ NormalizeAgain ]_vars

----------------------------------------------------------------------------
(* Dry run and acceptance evaluation (sandbox.py, acceptance.py,           *)
(* canary.py)                                                              *)

MaxRecords == 2

\* a string of the normalizer as json.dumps writes it and json.loads reads it
RECURSIVE Join(_)
Join(chars) == IF chars = <<>> THEN "" ELSE Head(chars) \o Join(Tail(chars))

\* the args dict of a planned action as canary_plan.jsonl holds it
JsonArgs(d) ==
    [k \in {Join(d[j].k) : j \in 1..Len(d)} |->
        LET v == d[CHOOSE j \in 1..Len(d) : Join(d[j].k) = k].v
        IN  IF IsStr(v) THEN Join(StrOf(v)) ELSE v]

\* prepare_canary's plan file: one line per step of the dry run's trace
CanaryPlanFile(steps) ==
    [i \in 1..Len(steps) |->
        [record_id |-> Join(steps[i].record_id),
         actions |-> [j \in 1..Len(steps[i].actions) |->
                         [tool |-> steps[i].actions[j].tool,
                          name |-> steps[i].actions[j].name,
                          args |-> JsonArgs(steps[i].actions[j].args)]]]]

\* forbidden_hits after the records of steps: one hit for every normalized
\* action policy_check does not allow
RECURSIVE ForbiddenHits(_, _)
ForbiddenHits(it, steps) ==
    IF steps = <<>> THEN 0
    ELSE LET actions == Head(steps).actions
         IN  Cardinality({j \in 1..Len(actions) : ~check(it, actions[j]).allow})
             + ForbiddenHits(it, Tail(steps))

\* evaluate, steps holding the normalized actions of each record.  The rate
\* is in thousandths, rounded to the nearest; the F1 score and the latency
\* percentile come from the numeric library and the clock and are left out.
evaluate(it, steps) ==
    LET forbidden_hits == ForbiddenHits(it, steps)
        n == IF Len(steps) > 1 THEN Len(steps) ELSE 1
    IN  [kind |-> "evaluate",
         n_records |-> Len(steps),
         metrics |-> [forbidden_action_rate |->
                          (2000 * forbidden_hits + n) \div (2 * n)]]

\* the contracts of the evaluation: two that forbid and gate nothing, and one
\* that forbids the routing action
InitAccept ==
    /\ intent \in {I_std, I_odd, [I_std EXCEPT !.forbidden_actions = {<<"route">>}]}
    /\ action = NoAction
    /\ decision = NoDecision
    /\ InitNoCanary
    /\ InitNoNormalize
    /\ InitNoGate
    /\ signoff_file = <<>>

\* the loop body of dry_run and of evaluate: the agent plans for the next
\* record (nothing, one action or several) and the normalizer filters what
\* it proposed
PlanRecord ==
    /\ Len(trace) < MaxRecords
    /\ \E id \in RecordIds,
          ps \in {<<>>} \cup {<<a>> : a \in ProposedActions} \cup CasePlans :
           trace' = Append(trace,
                       [record_id |-> id,
                        actions |-> validate_and_normalize_actions(intent, id, ps)])
    /\ UNCHANGED <<intent, history, auditVars, proposed, proposed_for, normalized,
                   rollbackVars, hashVars, cmd, policyVars, canaryVars, signoff_file,
                   gateVars>>

\* the acceptance evaluation returns its metrics
Evaluate ==
    /\ ret' = evaluate(intent, trace)
    /\ UNCHANGED <<intent, history, auditVars, normVars, rollbackVars, hashVars, cmd,
                   policyVars, canaryVars, signoff_file, kpis, metrics,
                   promotion_file, release_file>>

\* the plan of the dry run is written by canary prepare and executed by
\* canary run under the same contract
CanaryPlanned ==
    /\ pc = "idle"
    /\ LET st == RunLoop(intent, RunState(<<>>, 0, 0, 0, NewTracker),
                         Flatten(CanaryPlanFile(trace)))
       IN  /\ effects' = <<st.log>>
           /\ IF st.raised
              THEN /\ ret' = RaisedReturn("canary", "KeyError")
                   /\ UNCHANGED <<rollback_file, signoff_file, summary_file>>
              ELSE /\ rollback_file' = <<RollbackPlan(st.tracker.routes)>>
                   /\ \E t \in Choice.times : signoff_file' = <<SignoffTemplate(t)>>
                   /\ summary_file' = <<[executed_actions |-> st.executed,
                                         policy_violations |-> st.violations,
                                         human_gates |-> st.gates]>>
                   /\ ret' = [kind |-> "canary", summary |-> summary_file'[1]]
    /\ UNCHANGED <<intent, history, auditVars, normVars, rollbackVars, hashVars, cmd,
                   policyVars, pc, plan, violations, gates, executed, tracker,
                   kpis, metrics, promotion_file, release_file>>

SpecAccept ==
    InitAccept /\ [][ PlanRecord \/ Evaluate \/ CanaryPlanned ]_vars

----------------------------------------------------------------------------
(* Audit manifest (audit.py)                                               *)

\* The paths a run may hold under its directory, in the order sorted() gives
\* them.  The audit snapshot of the plan command writes the intent snapshot
\* and the plan trace, that of the evaluation writes the intent snapshot and
\* the metrics.
RunPaths == <<"files/intent.snapshot.yaml", "files/metrics.json", "files/plan_trace.jsonl">>

\* the file trees a run directory may hold: some of the paths, each a
\* regular file with one of two contents
RunTrees ==
    UNION { [ps -> {<<"k">>, <<"k", " ">>}] :
                ps \in SUBSET {RunPaths[i] : i \in DOMAIN RunPaths} }

\* SHA-256 of the file fs holds at path p.  The digest is taken as injective
\* on the bytes read: it is the content itself.
_sha256_file(fs, p) == fs[p]

\* entries of the files among paths ps (in order) that fs holds
RECURSIVE ManifestEntries(_, _)
ManifestEntries(fs, ps) ==
    IF ps = <<>> THEN <<>>
    ELSE (IF Head(ps) \in DOMAIN fs
             THEN <<[path |-> Head(ps), sha256 |-> _sha256_file(fs, Head(ps))]>>
             ELSE <<>>)
         \o ManifestEntries(fs, Tail(ps))

\* RunAudit.manifest: one entry per regular file under files/, sorted by path
manifest(fs) == [run_dir |-> "run", files |-> ManifestEntries(fs, RunPaths)]

\* the loop of verify_manifest over the entries left to check
RECURSIVE VerifyEntries(_, _, _)
VerifyEntries(fs, entries, acc) ==
    IF entries = <<>> THEN acc
    ELSE LET entry == Head(entries)
             rest  == Tail(entries)
         IN  IF entry.path \notin DOMAIN fs
             THEN VerifyEntries(fs, rest,
                      [acc EXCEPT !.missing = Append(@, entry.path)])
             ELSE LET actual == _sha256_file(fs, entry.path)
                  IN  IF actual # entry.sha256
                      THEN VerifyEntries(fs, rest,
                               [acc EXCEPT !.mismatches =
                                    Append(@, [path |-> entry.path,
                                               expected |-> entry.sha256,
                                               actual |-> actual])])
                      ELSE VerifyEntries(fs, rest, acc)

\* verify_manifest whose verdict looks at the mismatches only
verify_manifest_ignores_missing(mf, fs) ==
    LET out == VerifyEntries(fs, mf.files, [missing |-> <<>>, mismatches |-> <<>>])
    IN  [kind |-> "verify",
         ok |-> out.mismatches = <<>>,
         missing |-> out.missing,
         mismatches |-> out.mismatches]

\* verify_manifest(manifest_path), mf the manifest read and fs the files the
\* run directory it names holds
verify_manifest(mf, fs) ==
    LET out == VerifyEntries(fs, mf.files, [missing |-> <<>>, mismatches |-> <<>>])
    IN  [kind |-> "verify",
         ok |-> out.mismatches = <<>> /\ out.missing = <<>>,
         missing |-> out.missing,
         mismatches |-> out.mismatches]

InitAudit ==
    /\ intent = CanaryIntent.open
    /\ action = NoAction
    /\ decision = NoDecision
    /\ InitNoCanary
    /\ InitNoNormalize
    /\ InitNoGate
    /\ signoff_file = <<>>

\* the audit snapshot of a command: the run directory is created, the
\* command's files are written under files/ and the manifest is produced
AuditSnapshot ==
    /\ manifest_file = <<>>
    /\ history = NoHistory
    /\ \E fs \in RunTrees :
           /\ "files/intent.snapshot.yaml" \in DOMAIN fs
           /\ run_files' = fs
           /\ manifest_file' = <<manifest(fs)>>
    /\ UNCHANGED <<intent, history, normVars, rollbackVars, hashVars, cmd, policyVars,
                   canaryVars, signoff_file, gateVars>>

\* somebody edits, removes or adds a file of the run after the manifest
\* was written
EditRunFiles ==
    /\ manifest_file # <<>>
    /\ \E fs \in RunTrees :
           /\ fs # run_files
           /\ \E p \in DOMAIN fs \cup DOMAIN run_files :
                  \A q \in (DOMAIN fs \cup DOMAIN run_files) \ {p} :
                      q \in DOMAIN fs /\ q \in DOMAIN run_files /\ fs[q] = run_files[q]
           /\ run_files' = fs
    /\ UNCHANGED <<intent, history, manifest_file, normVars, rollbackVars, hashVars, cmd,
                   policyVars, canaryVars, signoff_file, gateVars>>

\* the verify command
VerifyCommand ==
    /\ manifest_file # <<>>
    /\ ret' = verify_manifest(manifest_file[1], run_files)
    /\ UNCHANGED <<intent, history, history, auditVars, normVars, rollbackVars, hashVars, cmd,
                   policyVars, canaryVars, signoff_file, kpis, metrics,
                   promotion_file, release_file>>

SpecAudit ==
    InitAudit /\ [][ AuditSnapshot \/ EditRunFiles \/ VerifyCommand ]_vars

----------------------------------------------------------------------------
(* Properties of the policy engine                                         *)

\* index of the last "." of a name that has one
LastDot(name) == CHOOSE i \in 1..Len(name) :
                     /\ name[i] = DOT
                     /\ \A j \in (i + 1)..Len(name) : name[j] # DOT

\* the final dot-separated segment of a name
LastSegment(name) ==
    IF HasDot(name) THEN SubSeq(name, LastDot(name) + 1, Len(name)) ELSE name

\* entry is what follows some "." of name
IsDotSuffix(entry, name) ==
    \E i \in 1..Len(name) :
        name[i] = DOT /\ entry = SubSeq(name, i + 1, Len(name))

\* the matching rule as the contract documents it: an entry matches a name
\* when it is the name's final segment, the full name, or a dot-suffix of it
Matches(entries, name) ==
    \E e \in entries :
        e = LastSegment(name) \/ e = name \/ IsDotSuffix(e, name)

\* C1: an action declared in the tool surface whose name matches no
\* forbidden entry and no gate entry is decided allow=true, gate=false.
C1_DeclaredIsAllowed ==
    (/\ Checked
     /\ Declared(intent, action)
     /\ ~Matches(intent.forbidden_actions, action.name)
     /\ ~Matches(intent.human_only_gates, action.name))
        => (decision.allow = TRUE /\ decision.gate = FALSE)

\* C2: an action whose (tool, name) pair is not declared in the tool
\* surface is decided allow=false, for every contract, also one that
\* declares no tools or no actions.
C2_UndeclaredIsBlocked ==
    (Checked /\ ~Declared(intent, action)) => decision.allow = FALSE

C4_GatedIsAllowedWithGate ==
    (/\ Checked
     /\ Declared(intent, action)
     /\ _suffix(action.name) \in intent.human_only_gates
     /\ ~Matches(intent.forbidden_actions, action.name))
        => (decision.allow = TRUE /\ decision.gate = TRUE)

\* C5: a forbidden entry matches an action when it equals the name's final
\* dot-separated segment, the full name, or a dot-suffix of it, and a
\* matched action is blocked; the suffix of a name is its last segment.
C5_ForbiddenMatchingRule ==
    Checked =>
        /\ _suffix(action.name) = LastSegment(action.name)
        /\ Matches(intent.forbidden_actions, action.name)
              => decision.allow = FALSE

\* C6: every decision has allow=false => gate=false and gate=true =>
\* allow=true.
C6_DecisionShape ==
    Checked =>
        /\ (decision.allow = FALSE => decision.gate = FALSE)
        /\ (decision.gate = TRUE => decision.allow = TRUE)

\* a gated decision and, in the same contract, a forbidden gated suffix
C6_Witness ==
    /\ Checked
    /\ decision.gate = TRUE
    /\ decision.allow = TRUE
    /\ intent.forbidden_actions \cap intent.human_only_gates # {}

----------------------------------------------------------------------------
(* Properties of the canary run                                            *)

\* the action the run has just evaluated, as bound to its step's record id
JustEvaluated ==
    LET step == plan'[Len(plan')]
    IN  BoundAction(step.record_id, step.actions[Len(step.actions)])

EvaluatedOne == pc = "loop" /\ PlanSize(plan') = PlanSize(plan) + 1

LastLine(file) == file[1][Len(file[1])]

\* C7: an action policy refuses (allow=false) or gates (gate=true) is not
\* dispatched: the run appends one 'blocked' resp. 'gate_required' entry,
\* increments the violation resp. gate counter, and the tool's routes, tags
\* and notes stay as they were.
C7_RefusedNotDispatched ==
    [][ EvaluatedOne =>
          LET pd == check(intent, JustEvaluated)
          IN  /\ ~pd.allow =>
                   /\ tracker' = tracker
                   /\ Len(effects'[1]) = Len(effects[1]) + 1
                   /\ "policy" \in DOMAIN LastLine(effects')
                   /\ LastLine(effects').policy = "blocked"
                   /\ violations' = violations + 1
                   /\ gates' = gates /\ executed' = executed
                   /\ pc' = "loop"
              /\ (pd.allow /\ pd.gate) =>
                   /\ tracker' = tracker
                   /\ Len(effects'[1]) = Len(effects[1]) + 1
                   /\ "policy" \in DOMAIN LastLine(effects')
                   /\ LastLine(effects').policy = "gate_required"
                   /\ gates' = gates + 1
                   /\ violations' = violations /\ executed' = executed
                   /\ pc' = "loop" ]_vars

\* a run that executed a routing, then met a gated and a blocked action
C7_Witness ==
    /\ pc = "loop"
    /\ tracker.routes # <<>>
    /\ violations = 1
    /\ gates = 1
    /\ executed = 1
    /\ Len(effects[1]) = 3

----------------------------------------------------------------------------
(* Properties of the promotion gate                                        *)

\* _compare cannot parse the target
Unparseable(target) ==
    \/ ~TargetMatch(target).matched
    \/ ~FloatOk(TargetMatch(target).num)

\* the KPI is absent from the computed metrics, its target is unparseable,
\* or the comparison of the computed metric against the target fails
KpiFails(k) ==
    \/ k.name \notin DOMAIN metrics
    \/ Unparseable(k.target)
    \/ ~_compare(metrics[k.name], k.target).ok

FailingKpis == {i \in 1..Len(kpis) : KpiFails(kpis[i])}

\* index of the j-th failing KPI
NthFailing(j) ==
    CHOOSE i \in FailingKpis : Cardinality({k \in FailingKpis : k < i}) = j - 1

\* C10: the gate returns one breach for every declared KPI that is absent
\* from the computed metrics, has an unparseable target or fails its
\* comparison, in KPI order and none more, and passed is true exactly when
\* the breach list is empty.
C10_BreachPerFailingKpi ==
    ret.kind = "gate" =>
        /\ Len(ret.breaches) = Cardinality(FailingKpis)
        /\ \A j \in 1..Len(ret.breaches) :
              ret.breaches[j].name = kpis[NthFailing(j)].name
        /\ ret.passed <=> (ret.breaches = <<>>)

\* two KPIs breached in one pass: an unparseable target, then a missed one
C10_Witness ==
    /\ ret.kind = "gate"
    /\ Len(kpis) = 2
    /\ Len(ret.breaches) = 2
    /\ "reason" \in DOMAIN ret.breaches[1]
    /\ ret.breaches[1].reason = "Bad KPI target syntax"
    /\ "actual" \in DOMAIN ret.breaches[2]
    /\ ret.passed = FALSE

\* C11: decide_and_promote writes a promotion record if and only if passed
\* is true; with any KPI breached it returns passed=false with no promotion
\* path and leaves the output directory as it was.
C11_PromotionIffPassed ==
    [][ ret'.kind = "gate" =>
          IF Breaches(kpis, metrics) = <<>>
          THEN /\ ret'.passed = TRUE
               /\ ret'.promotion_path = "promotion.json"
               /\ promotion_file' = <<Promotion(intent, files)>>
          ELSE /\ ret'.passed = FALSE
               /\ ret'.promotion_path = PyNone
               /\ promotion_file' = promotion_file ]_vars

\* f1_macro >= 0.80 evaluated on a computed 0.75: breached, nothing written
C11_Witness ==
    /\ ret.kind = "gate"
    /\ kpis = <<[name |-> "f1_macro", target |-> Target.ge80]>>
    /\ metrics.f1_macro = 75
    /\ ret.passed = FALSE
    /\ ret.breaches = <<[name |-> "f1_macro", target |-> Target.ge80, actual |-> 75]>>
    /\ ret.promotion_path = PyNone
    /\ promotion_file = <<>>

----------------------------------------------------------------------------
(* Properties of the release finalizer                                     *)

\* the last command was finalize, and ret is what it returned or raised
FromFinalize ==
    \/ ret.kind = "finalize"
    \/ ret.kind = "raised" /\ ret.by = "finalize"

\* the sign-off record exists and its approved field is true
ApprovedTrue ==
    /\ signoff_file # <<>>
    /\ "approved" \in DOMAIN signoff_file[1]
    /\ signoff_file[1].approved = PyTrue

\* the canary summary reports zero policy violations
ZeroViolations == summary_file[1].policy_violations = 0

\* C8: given a promotion record and a canary summary, finalize returns
\* ok=true and writes the release descriptor if and only if the summary
\* reports zero policy violations and the sign-off's approved field is true;
\* in every other case it returns ok=false and leaves the release file as
\* it was.
C8_ReleaseIffCleanAndApproved ==
    [][ (FromFinalize' /\ promotion_file # <<>> /\ summary_file # <<>>) =>
          IF ZeroViolations /\ ApprovedTrue
          THEN /\ ret'.kind = "finalize" /\ ret'.ok = TRUE
               /\ release_file' = <<Release(promotion_file[1], signoff_file[1])>>
          ELSE /\ ret'.kind = "finalize" /\ ret'.ok = FALSE
               /\ release_file' = release_file ]_vars

\* C9: a finalize rejection (policy violations present, or sign-off absent
\* or not approved) is returned as {ok: false, reason} and never raised,
\* also when the sign-off file is missing or has no approved field.
C9_RejectionIsStructured ==
    (/\ FromFinalize
     /\ promotion_file # <<>>
     /\ summary_file # <<>>
     /\ (~ZeroViolations \/ ~ApprovedTrue))
        => (ret.kind = "finalize" /\ ret.ok = FALSE)

----------------------------------------------------------------------------
(* Properties of the human sign-off                                        *)

\* the record's approved field is the boolean true
Approves(rec) == "approved" \in DOMAIN rec /\ rec.approved = PyTrue

\* the last command was a canary run, and ret is what it returned or raised
FromCanary ==
    \/ ret.kind = "canary"
    \/ ret.kind = "raised" /\ ret.by = "canary"

\* the sign-off record was written by this step
SignoffWritten == signoff_file' # signoff_file

\* C12: of the program's operations only signoff.approve leaves a sign-off
\* record with approved=true: init, reject and the canary run's template
\* write approved=false, show writes nothing and returns approved=true only
\* for a record stored so, and the gate and the finalizer never write the
\* sign-off record.
C12_OnlyApproveApproves ==
    [][ /\ (ret' = NoReturn /\ (SignoffInit \/ SignoffReject)) =>
              (signoff_file' # <<>> /\ signoff_file'[1].approved = PyFalse)
        /\ ret'.kind = "show" =>
              /\ ~SignoffWritten
              /\ Approves(ret'.data) => ApprovedTrue
        /\ FromCanary' => (SignoffWritten => signoff_file'[1].approved = PyFalse)
        /\ (ret'.kind = "gate" \/ FromFinalize') => ~SignoffWritten
        /\ (SignoffWritten /\ ApprovedTrue') => (SignoffApprove \/ HumanEdit) ]_vars

\* an approved record shown, after a run's template had been approved
C12_Witness ==
    /\ ret.kind = "show"
    /\ Approves(ret.data)
    /\ ApprovedTrue
    /\ summary_file # <<>>
    /\ promotion_file # <<>>

\* the canary run has ended, by returning or by an exception
RunEnded == pc \in {"done", "raised"}

\* C13: after every canary run, whatever the plan and its outcomes and
\* whatever the sign-off file held before, the sign-off file of the run's
\* output directory holds approved=false.
C13_RunLeavesUnapproved ==
    RunEnded =>
        /\ signoff_file # <<>>
        /\ "approved" \in DOMAIN signoff_file[1]
        /\ signoff_file[1].approved = PyFalse

----------------------------------------------------------------------------
(* Properties of the action normalizer                                     *)

\* the arguments of an action as a mapping, whatever their order
ArgsMap(args) == [k \in {args[i].k : i \in 1..Len(args)} |-> DictGet(args, k)]

\* the same actions in the same order with the same argument names and values
SamePlan(p, q) ==
    /\ Len(p) = Len(q)
    /\ \A i \in 1..Len(p) :
          /\ p[i].tool = q[i].tool
          /\ p[i].name = q[i].name
          /\ ArgsMap(p[i].args) = ArgsMap(q[i].args)

\* the argument specs of every action the contract declares
AllArgSpecs(it) ==
    UNION { { it.tooling[i].actions[j].args : j \in 1..Len(it.tooling[i].actions) } :
            i \in 1..Len(it.tooling) }

\* strip() and the synonym map leave the string as it is
Settled(str, normalize_map) ==
    /\ Strip(str) = str
    /\ DictHas(normalize_map, str) => DictGet(normalize_map, str) = str

\* the contract is canonical in itself: every declared argument name
\* canonicalizes to itself, and every enum entry and every synonym value is
\* left unchanged by strip() and the synonym map
SelfCanonical(it) ==
    /\ \A specs \in AllArgSpecs(it) : \A i \in 1..Len(specs) :
          /\ _canonicalize_arg_name(specs[i].k, specs) = specs[i].k
          /\ \A e \in 1..Len(specs[i].v.enum) :
                Settled(specs[i].v.enum[e], NormalizeMap(it))
    /\ \A i \in 1..Len(NormalizeMap(it)) :
          Settled(NormalizeMap(it)[i].v, NormalizeMap(it))

\* this step runs the normalizer on its own output
Rerun == normalized # <<>> /\ normalized' # <<>> /\ proposed' = normalized[1]

\* C14: re-running the normalizer on its own output, with the same contract
\* and record id, returns a plan equal to that output.
C14_Idempotent ==
    [][ Rerun => SamePlan(normalized'[1], normalized[1]) ]_vars

\* C14 as amended: re-running the normalizer on its own output, with the
\* same contract and record id, returns a plan equal to that output,
\* provided the contract is canonical in itself.
C14_IdempotentOnSelfCanonical ==
    [][ (Rerun /\ SelfCanonical(intent)) =>
            SamePlan(normalized'[1], normalized[1]) ]_vars

\* a plan that needed an alias, a synonym, stripping, an id and the removal
\* of a repeated pair has been normalized, and normalized again
C14_Witness ==
    /\ intent = I_std
    /\ SelfCanonical(intent)
    /\ normalized # <<>>
    /\ proposed = normalized[1]
    /\ validate_and_normalize_actions(intent, proposed_for, proposed) = proposed
    /\ Len(proposed) = 2
    /\ proposed[1].name = Name.route
    /\ DictGet(proposed[1].args, Str.queue) = StrValue(Str.pay)
    /\ DictGet(proposed[1].args, ID) = StrValue(proposed_for)
    /\ proposed[2].name = Name.tag

\* the normalizer has run; Out is what it returned for the plan in proposed
Ran == normalized # <<>>

Out == normalized[1]

Pair(a) == <<a.tool, a.name>>

\* C15: every action of the output has a (tool, name) pair the contract's
\* tool surface declares, and is the pair of a proposed action; a proposed
\* action of an undeclared tool or name does not appear in the output.
C15_OutputWithinSurface ==
    Ran =>
        /\ \A i \in 1..Len(Out) :
              /\ Pair(Out[i]) \in Surface(intent)
              /\ \E j \in 1..Len(proposed) : Pair(proposed[j]) = Pair(Out[i])
        /\ \A j \in 1..Len(proposed) :
              Pair(proposed[j]) \notin Surface(intent) =>
                  \A i \in 1..Len(Out) : Pair(Out[i]) # Pair(proposed[j])

\* an undeclared tool and an undeclared action were proposed before a
\* declared one, and only the declared one came out
C15_Witness ==
    /\ Ran
    /\ intent = I_std
    /\ proposed = <<Proposal.crm, Proposal.close, Proposal.tag>>
    /\ Len(Out) = 1
    /\ Pair(Out[1]) = <<"issue_tracker", Name.tag>>

\* the proposed actions that pass the normalizer's validation
ValidIndices ==
    {j \in 1..Len(proposed) :
        NormalizeOne(intent, proposed_for, proposed[j]) # <<>>}

\* those of them that are the first valid action of their pair
Kept ==
    LET valid == ValidIndices
    IN  {j \in valid :
            \A k \in valid : k < j => Pair(proposed[k]) # Pair(proposed[j])}

\* the i-th index of a set of indices
Nth(indices, i) ==
    CHOOSE j \in indices : Cardinality({k \in indices : k < j}) = i - 1

\* C16: the output holds at most one action per (tool, name) pair, the one
\* kept is the first occurrence of the pair among the proposed actions that
\* pass validation, and the kept actions are in their input order.
C16_FirstOccurrenceWins ==
    Ran =>
        LET kept == Kept
        IN  /\ \A i, k \in 1..Len(Out) : i # k => Pair(Out[i]) # Pair(Out[k])
            /\ Len(Out) <= Cardinality(kept)
            /\ \A i \in 1..Len(Out) :
                  Out[i] = NormalizeOne(intent, proposed_for,
                                        proposed[Nth(kept, i)])[1]

\* a routing without queue is skipped, the first valid routing is kept and
\* the second one, to another queue, is dropped
C16_Witness ==
    /\ Ran
    /\ intent = I_std
    /\ proposed = <<Proposal.route_none, Proposal.route_bill, Proposal.route>>
    /\ Len(Out) = 1
    /\ DictGet(Out[1].args, Str.queue) = StrValue(Str.pay)

\* C17: the normalizer never returns more than 10 actions, and when more
\* than 10 distinct valid actions survive deduplication the output is
\* exactly the first 10 of them.
C17_CappedAtTen ==
    Ran =>
        LET kept == Kept
        IN  /\ Len(Out) <= 10
            /\ Cardinality(kept) > 10 =>
                  /\ Len(Out) = 10
                  /\ \A i \in 1..10 :
                        Out[i] = NormalizeOne(intent, proposed_for,
                                              proposed[Nth(kept, i)])[1]

\* twelve distinct declared actions, each proposed twice: ten come out
C17_Witness ==
    /\ Ran
    /\ intent = I_wide
    /\ Len(proposed) = 24
    /\ Cardinality(Kept) = 12
    /\ Len(Out) = 10
    /\ Out[10] = proposed[10]

\* the argument specs the normalizer reads for an action of a declared pair
SchemaOf(a) ==
    DictGet(_action_index(DictGet(_tool_index(intent), a.tool)), a.name).args

\* the canonical names of the arguments a proposed action carries
CanonKeys(a) ==
    {_canonicalize_arg_name(a.args[i].k, SchemaOf(a)) : i \in 1..Len(a.args)}

\* after key canonicalization and id injection the proposed action still
\* lacks an argument its schema marks required
LacksRequired(a) ==
    \E i \in 1..Len(SchemaOf(a)) :
        /\ SchemaOf(a)[i].v.required
        /\ SchemaOf(a)[i].k \notin CanonKeys(a)
        /\ SchemaOf(a)[i].k # ID

\* C18: every action of the output carries every argument its schema marks
\* required, and comes from a proposed action that lacks none of them after
\* key canonicalization and id injection: one that lacks one is dropped.
C18_RequiredArgsPresent ==
    Ran =>
        \A i \in 1..Len(Out) :
            /\ \A n \in 1..Len(SchemaOf(Out[i])) :
                  SchemaOf(Out[i])[n].v.required =>
                      DictHas(Out[i].args, SchemaOf(Out[i])[n].k)
            /\ \E j \in 1..Len(proposed) :
                  Pair(proposed[j]) = Pair(Out[i]) /\ ~LacksRequired(proposed[j])

\* a tag without tag and a routing without queue are dropped; the routing
\* that names its queue is kept and is bound to the record
C18_Witness ==
    /\ Ran
    /\ intent = I_std
    /\ proposed = <<Proposal.tag_none, Proposal.route_none, Proposal.route>>
    /\ Len(Out) = 1
    /\ DictGet(Out[1].args, ID) = StrValue(proposed_for)
    /\ DictGet(Out[1].args, Str.queue) = StrValue(Str.bug)

\* the value the proposed action gives the argument of canonical name c:
\* that of the last key that canonicalizes to c
RawValue(a, c) ==
    LET idx == {i \in 1..Len(a.args) :
                   _canonicalize_arg_name(a.args[i].k, SchemaOf(a)) = c}
    IN  a.args[CHOOSE i \in idx : \A j \in idx : j <= i].v

\* the string after strip() and the synonym map
AfterSynonyms(str) ==
    IF DictHas(NormalizeMap(intent), Strip(str))
    THEN DictGet(NormalizeMap(intent), Strip(str))
    ELSE Strip(str)

\* C19: in the output every string-valued argument whose schema declares an
\* enum holds a member of that enum: a proposed value that, stripped and
\* passed through the synonym map, equals an enum entry without regard to
\* case has become such an entry, and any other value has become the last
\* declared entry.
C19_EnumValuesAreMembers ==
    Ran =>
        LET kept == Kept
        IN  \A i \in 1..Len(Out) :
            LET src == proposed[Nth(kept, i)]
                specs == SchemaOf(Out[i])
            IN  \A n \in 1..Len(specs) :
                    LET c == specs[n].k
                        enum == specs[n].v.enum
                        val == DictGet(Out[i].args, c)
                    IN  (enum # <<>> /\ DictHas(Out[i].args, c) /\ IsStr(val)) =>
                          /\ InEnum(StrOf(val), enum)
                          /\ (c \in CanonKeys(src) /\ IsStr(RawValue(src, c))) =>
                                LET w == AfterSynonyms(StrOf(RawValue(src, c)))
                                IN  IF \E e \in 1..Len(enum) : Lower(enum[e]) = Lower(w)
                                    THEN Lower(StrOf(val)) = Lower(w)
                                    ELSE StrOf(val) = enum[Len(enum)]

\* " Bug " under the alias TO has become the entry bug, and the tag vip,
\* which matches no entry, has become the last entry
C19_Witness ==
    /\ Ran
    /\ intent = I_odd
    /\ proposed = <<Proposal.route_TO, Proposal.tag>>
    /\ Len(Out) = 2
    /\ DictGet(Out[1].args, Str.queue) = StrValue(Str.bug)
    /\ DictGet(Out[2].args, Str.tag) = StrValue(Str.bug)

----------------------------------------------------------------------------
(* Properties of the rollback plan                                         *)

\* the effect log entry records a dispatch that routed a ticket
RoutedEntry(e) ==
    /\ "result" \in DOMAIN e
    /\ e.result.ok
    /\ e.result.effect.type = "route"

\* the ids that had a successful routing effect during the run
RoutedIds ==
    {effects[1][i].result.effect.id :
        i \in {n \in 1..Len(effects[1]) : RoutedEntry(effects[1][n])}}

\* the compensating step for one id
DefaultRoute(id) ==
    [record_id |-> id,
     actions |-> <<[tool |-> "issue_tracker", name |-> Name.route,
                    args |-> [id |-> id, queue |-> "general"]]>>]

\* the steps of the rollback plan in the output directory: none when the
\* file does not exist
RollbackSteps == IF rollback_file = <<>> THEN <<>> ELSE rollback_file[1]

\* C20: after a canary run the rollback plan contains exactly one step for
\* every distinct record id that had a successful routing effect during the
\* run, each holding a single ticket.route action to the default queue
\* 'general' for that id, and no step for a record whose routing was
\* blocked, gated or failed.
C20_RollbackCoversRoutedIds ==
    RunEnded =>
        /\ Len(RollbackSteps) = Cardinality(RoutedIds)
        /\ {RollbackSteps[i] : i \in 1..Len(RollbackSteps)}
              = {DefaultRoute(id) : id \in RoutedIds}

----------------------------------------------------------------------------
(* Properties of the rollback replay                                       *)

\* the rollback was replayed
Replayed == rollback_effects # <<>>

\* the logged result is a refusal by the policy decision
Refused(res) == "blocked" \in DOMAIN res \/ "gate_required" \in DOMAIN res

\* C21: run_rollback dispatches every action of a rollback plan to the tool
\* without applying the policy decision: no rollback action is refused as
\* blocked or gate_required, whatever the contract's surface,
\* forbidden_actions and human_only_gates are.
C21_RollbackNotGated ==
    Replayed =>
        /\ Len(rollback_effects[1]) = Len(Flatten(rollback_file[1]))
        /\ \A i \in 1..Len(rollback_effects[1]) : ~Refused(rollback_effects[1][i].result)

----------------------------------------------------------------------------
(* Properties of the canary run's failure handling and effect log          *)

\* the actions of the plan read so far, in evaluation order
PlanRead == Flatten(plan)

\* the lines of the effect log of the run
Log == effects[1]

\* C22: a dispatch failure for one action never aborts a canary run: every
\* later action of the plan is still evaluated and logged, and the run
\* completes by writing the rollback plan, the sign-off template and the
\* summary.
C22_DispatchFailureNeverAborts ==
    RunEnded =>
        /\ pc = "done"
        /\ Len(Log) = Len(PlanRead)
        /\ rollback_file # <<>>
        /\ signoff_file # <<>> /\ signoff_file[1] \in {SignoffTemplate(t) : t \in Choice.times}
        /\ summary_file # <<>>

----------------------------------------------------------------------------
(* Properties of the release descriptor and the promotion hash             *)

\* the last command was a finalize that returned ok=true
Finalized == ret.kind = "finalize" /\ ret.ok

\* C23: the release descriptor written by a successful finalize carries the
\* content hash, intent reference, metrics reference, canary config and
\* source-file list of exactly the promotion record it read, and the
\* reviewer, notes and timestamp of exactly the sign-off record it read.
C23_ReleaseTraceable ==
    Finalized =>
        /\ release_file # <<>>
        /\ LET release == release_file[1]
               promo == promotion_file[1]
               sign == signoff_file[1]
           IN  /\ release.candidate_sha256 = promo.candidate.sha256
               /\ release.intent = promo.candidate.intent
               /\ release.metrics = promo.candidate.metrics
               /\ release.canary = promo.canary
               /\ release.source_files = promo.candidate.src_files
               /\ release.human_signoff.reviewer = sign.reviewer
               /\ release.human_signoff.notes = sign.notes
               /\ release.human_signoff.timestamp = sign.timestamp

\* a release of the contract with a canary section, approved by ann with a
\* note, over two source files listed in sorted order
C23_Witness ==
    /\ Finalized
    /\ intent = CanaryIntent.rules
    /\ release_file[1].canary = [sample_size |-> 5, rollback_on |-> <<"f1_macro">>]
    /\ release_file[1].source_files = <<1, 2>>
    /\ release_file[1].candidate_sha256 = <<"k", "m", "b", "a">>
    /\ release_file[1].human_signoff.reviewer = "ann"
    /\ release_file[1].human_signoff.notes = "ok"
    /\ release_file[1].human_signoff.timestamp = 2

\* C24: the promotion content hash is the same for repeated gate evaluations
\* over unchanged contract, metrics and source files, and differs whenever
\* the content of any of those input files changes by at least one byte
\* (including a change that moves bytes from the end of one hashed file to
\* the start of the next).
C24_HashTracksContent ==
    [][ (ret'.kind = "gate" /\ ret'.passed /\ hashed # <<>>) =>
          ( (hashed' = hashed) <=>
            (promotion_file'[1].candidate.sha256 = promotion_file[1].candidate.sha256) )
      ]_vars

----------------------------------------------------------------------------
(* Properties of the sign-off commands                                     *)

\* the stored value of a field before the command: "" when there is no
\* record
Stored(field) == IF signoff_file = <<>> THEN "" ELSE signoff_file[1][field]

\* the option when it was given, else the stored value
GivenOrStored(given, field) == IF given # "" THEN given ELSE Stored(field)

\* C25: approve sets approved=true and reject sets approved=false on the
\* persisted sign-off record; each keeps the previously stored reviewer
\* (respectively notes) when the corresponding argument is not given and
\* replaces it when it is given, and a following show returns exactly the
\* record just written.
C25_ApproveRejectShow ==
    [][ /\ cmd'.op \in {"approve", "reject"} =>
              /\ signoff_file' # <<>>
              /\ signoff_file'[1].approved =
                    (IF cmd'.op = "approve" THEN PyTrue ELSE PyFalse)
              /\ signoff_file'[1].reviewer = GivenOrStored(cmd'.reviewer, "reviewer")
              /\ signoff_file'[1].notes = GivenOrStored(cmd'.notes, "notes")
        /\ (cmd'.op = "show" /\ cmd.op \in {"approve", "reject"}) =>
              /\ ret'.data = signoff_file[1]
              /\ signoff_file' = signoff_file ]_vars

\* bob's rejection with a note is approved by ann without a note: the
\* reviewer is replaced, the note is kept, and show returns that record
C25_Witness ==
    /\ cmd.op = "show"
    /\ ret.kind = "show"
    /\ ret.data = [approved |-> PyTrue, reviewer |-> "ann", notes |-> "no", timestamp |-> 2]
    /\ signoff_file = <<ret.data>>

----------------------------------------------------------------------------
(* Properties of contract loading                                          *)

\* the last command was load_intent, and ret is what it returned or raised
FromLoad ==
    \/ ret.kind = "load"
    \/ ret.kind = "raised" /\ ret.by = "load"

\* the target does not parse as comparator, number and optional unit suffix
Malformed(target) == check_target(target).raised

\* C26: loading a contract whose KPI target does not parse as comparator,
\* number and optional unit suffix fails with a validation error and
\* returns no contract object; no loaded Intent ever holds a KPI with a
\* malformed target.
C26_MalformedTargetRejected ==
    FromLoad =>
        /\ (\E i \in 1..Len(kpis) : Malformed(kpis[i].target)) => ret.kind = "raised"
        /\ ret.kind = "load" =>
              \A i \in 1..Len(ret.intent.kpis) : ~Malformed(ret.intent.kpis[i].target)

\* the i-th line of the effect log is the entry of the i-th action read:
\* its record, the action with its id bound, and one of policy and result
EntryOf(i) ==
    /\ Log[i].record_id = PlanRead[i].record_id
    /\ Log[i].action = BoundAction(PlanRead[i].record_id, PlanRead[i].a)
    /\ ("policy" \in DOMAIN Log[i]) # ("result" \in DOMAIN Log[i])

\* C28: when a run has ended, the effect log holds exactly one entry per
\* action of the plan, in plan order, each carrying exactly one of a policy
\* outcome and a dispatch result.
C28_OneEntryPerAction ==
    RunEnded =>
        /\ Len(Log) = Len(PlanRead)
        /\ \A i \in 1..Len(Log) : EntryOf(i)

\* number of lines of the effect log whose dispatch result reports ok
RECURSIVE OkDispatches(_)
OkDispatches(log) ==
    IF log = <<>> THEN 0
    ELSE (IF "result" \in DOMAIN Head(log) /\ Head(log).result.ok THEN 1 ELSE 0)
         + OkDispatches(Tail(log))

\* C29: the summary's executed_actions is the number of dispatches that
\* reported ok, and executed_actions + policy_violations + human_gates is
\* at most the number of actions of the plan.
C29_ExecutedCountsOkDispatches ==
    summary_file # <<>> =>
        /\ summary_file[1].executed_actions = OkDispatches(Log)
        /\ summary_file[1].executed_actions + summary_file[1].policy_violations
               + summary_file[1].human_gates <= PlanSize(plan)

\* a run whose summary counts one dispatch although two were made, one of
\* them reporting a failure
C29_Witness ==
    /\ summary_file # <<>>
    /\ summary_file[1].executed_actions = 1
    /\ \E i, j \in 1..Len(Log) :
           /\ "result" \in DOMAIN Log[i] /\ Log[i].result.ok
           /\ "result" \in DOMAIN Log[j] /\ ~Log[j].result.ok

\* the argument specs the contract declares for the action's tool and name
ArgSpecsOf(a) ==
    DictGet(_action_index(DictGet(_tool_index(intent), a.tool)), a.name).args

\* the action's schema declares a required id argument
RequiresId(a) ==
    /\ DictHas(_tool_index(intent), a.tool)
    /\ DictHas(_action_index(DictGet(_tool_index(intent), a.tool)), a.name)
    /\ DictHas(ArgSpecsOf(a), ID)
    /\ DictGet(ArgSpecsOf(a), ID).required

\* the proposed action an output action was made from: the first one of its
\* tool and name that the normalizer does not skip
SourceOf(o) ==
    LET from == {j \in 1..Len(proposed) :
                    /\ proposed[j].tool = o.tool
                    /\ proposed[j].name = o.name
                    /\ NormalizeOne(intent, proposed_for, proposed[j]) # <<>>}
    IN  proposed[CHOOSE j \in from : \A k \in from : j <= k]

\* the arguments the agent supplied, under their canonical names
Supplied(a) == CanonArgs(a.args, ArgSpecsOf(a), EmptyDict)

\* C30: in the normalizer's output an action whose schema declares a
\* required id carries the id the agent supplied for it (under the name or
\* an alias), unchanged, and the record's id when the agent supplied none.
C30_IdBoundOrKept ==
    normalized # <<>> =>
        \A i \in 1..Len(normalized[1]) :
            LET o == normalized[1][i]
            IN  RequiresId(o) =>
                    DictGet(o.args, ID) =
                        (IF DictHas(Supplied(SourceOf(o)), ID)
                         THEN DictGet(Supplied(SourceOf(o)), ID)
                         ELSE StrValue(proposed_for))

----------------------------------------------------------------------------
(* Properties of the audit manifest                                        *)

\* the paths of a list of mismatch reports
RECURSIVE ReportedPaths(_)
ReportedPaths(reports) ==
    IF reports = <<>> THEN {} ELSE {Head(reports).path} \cup ReportedPaths(Tail(reports))

\* the entry's file exists with the hash the entry records
Intact(entry) ==
    /\ entry.path \in DOMAIN run_files
    /\ _sha256_file(run_files, entry.path) = entry.sha256

\* C27: a verification of the manifest answers ok exactly when every listed
\* file exists with the recorded hash; a listed file that is gone is
\* reported under missing and not under mismatches, a listed file whose
\* content changed under mismatches and not under missing; and when the
\* manifest is what the run directory would produce now, the answer is ok.
C27_VerifyManifest ==
    [][ (ret'.kind = "verify" /\ UNCHANGED auditVars) =>
          LET entries == manifest_file[1].files
              listed  == {entries[i] : i \in DOMAIN entries}
              gone    == {ret'.missing[i] : i \in DOMAIN ret'.missing}
              changed == ReportedPaths(ret'.mismatches)
          IN  /\ ret'.ok <=> \A e \in listed : Intact(e)
              /\ \A e \in listed :
                     /\ e.path \notin DOMAIN run_files
                            => e.path \in gone /\ e.path \notin changed
                     /\ (e.path \in DOMAIN run_files /\ ~Intact(e))
                            => e.path \in changed /\ e.path \notin gone
                     /\ Intact(e) => e.path \notin gone \cup changed
              /\ manifest_file[1] = manifest(run_files) => ret'.ok
      ]_vars

\* a verification found one listed file gone and another one changed
C27_Witness ==
    /\ ret.kind = "verify"
    /\ ~ret.ok
    /\ Len(ret.missing) = 1
    /\ Len(ret.mismatches) = 1
    /\ Len(manifest_file[1].files) = 3

----------------------------------------------------------------------------
(* Properties of the release pipeline                                      *)

\* C37: finalize accepts a sign-off only when its approved field is the
\* boolean true: given a promotion and a summary, a record whose approved
\* field is not a boolean is answered with ok=false and the release file is
\* left as it was.
C37_OnlyBooleanTrueAccepted ==
    [][ FromFinalize' =>
          /\ (ret'.kind = "finalize" /\ ret'.ok) => ApprovedTrue
          /\ (/\ promotion_file # <<>>
              /\ summary_file # <<>>
              /\ signoff_file # <<>>
              /\ "approved" \in DOMAIN signoff_file[1]
              /\ ~IsBool(signoff_file[1].approved))
                 => /\ ret'.kind = "finalize"
                    /\ ret'.ok = FALSE
                    /\ release_file' = release_file
      ]_vars

\* finalize refused a record whose approved field is the string "true",
\* with a promotion and a clean summary at hand
C37_Witness ==
    /\ ret.kind = "finalize"
    /\ ret.ok = FALSE
    /\ promotion_file # <<>>
    /\ summary_file # <<>> /\ ZeroViolations
    /\ signoff_file # <<>>
    /\ "approved" \in DOMAIN signoff_file[1]
    /\ signoff_file[1].approved = <<"str", "true">>
    /\ release_file = <<>>

\* a finalize call finds one of its three input files missing
InputMissing == promotion_file = <<>> \/ summary_file = <<>> \/ signoff_file = <<>>

\* C33: starting with no artifacts, a release descriptor exists only if
\* earlier a gate evaluation passed and wrote a promotion record, a canary
\* run wrote a summary and approve was invoked; and finalize writes no
\* release while one of its three input artifacts is missing.
C33_ReleaseNeedsAllStages ==
    [][ /\ release_file' # <<>> =>
              /\ history'.passed_once /\ promotion_file' # <<>>
              /\ history'.summarized /\ summary_file' # <<>>
              /\ history'.approved_once
        /\ (FromFinalize' /\ InputMissing) =>
              (release_file' = release_file /\ ret'.kind = "raised")
      ]_vars

\* a release was written after all three stages
C33_Witness ==
    /\ release_file # <<>>
    /\ Finalized
    /\ history.passed_once /\ history.summarized /\ history.approved_once

\* C34: finalize returns ok=true only if the most recent gate evaluation
\* passed.
C34_LatestEvaluationPassed ==
    [][ (ret'.kind = "finalize" /\ ret'.ok) => history.last_gate = "passed" ]_vars

\* C35: finalize returns ok=true only if approve was invoked after the most
\* recent canary run and no init or reject followed it.
C35_ApprovalAfterLatestRun ==
    [][ (ret'.kind = "finalize" /\ ret'.ok) => history.approval_stands ]_vars

\* C36: every record_id of the rollback plan a canary run emitted is the
\* record_id of some step of the plan the run executed.
C36_RollbackIdsAreStepIds ==
    rollback_file # <<>> =>
        \A i \in 1..Len(rollback_file[1]) :
            \E j \in 1..Len(plan) : rollback_file[1][i].record_id = plan[j].record_id

----------------------------------------------------------------------------
(* Properties of the dry run and the acceptance evaluation                 *)

\* the normalized actions of the records planned so far
RECURSIVE TraceActions(_)
TraceActions(steps) ==
    IF steps = <<>> THEN {}
    ELSE {Head(steps).actions[j] : j \in 1..Len(Head(steps).actions)}
         \cup TraceActions(Tail(steps))

\* C31: when no normalized action of any record matches forbidden_actions,
\* the acceptance evaluation reports a forbidden_action_rate of 0.
C31_NoForbiddenNoHits ==
    [][ (ret'.kind = "evaluate" /\ trace' = trace) =>
          ( (\A a \in TraceActions(trace) : ~Matches(intent.forbidden_actions, a.name))
              => ret'.metrics.forbidden_action_rate = 0 )
      ]_vars

\* C32: under a contract with no forbidden actions and no human gates, the
\* canary run of a plan the dry run produced logs no blocked entry and
\* reports policy_violations = 0.
C32_NormalizedPlanNeverBlocked ==
    (/\ FromCanary
     /\ intent.forbidden_actions = {}
     /\ intent.human_only_gates = {})
        => /\ \A i \in 1..Len(Log) :
                 ~("policy" \in DOMAIN Log[i] /\ Log[i].policy = "blocked")
           /\ summary_file # <<>> => summary_file[1].policy_violations = 0

=============================================================================
